---- MODULE Spec2Model ----
(* The coordinator of lucky-dog (server.js): the candidate store, the lease  *)
(* state machine, the "password found" latch with its marker file, and the   *)
(* request handlers, as a state machine.  Node runs one handler at a time;   *)
(* a handler gives up control only at an `await`, so each handler is one     *)
(* action per stretch of code between two awaits, and a file-system call is  *)
(* a step of its own that happens while the handler is suspended.            *)
EXTENDS Integers, Sequences, FiniteSets, TLC

(***************************************************************************)
(* Bounds of the model.                                                    *)
(***************************************************************************)
NumRows == 2        \* rows of the records table
ManyRows == 101     \* rows of a table larger than the smallest batch
BigRows == 2500000  \* rows of a store large enough for its summary to be cached
MaxInflight == 2    \* handlers suspended at an await at the same time
MaxStanzas == 2     \* stanzas appended to found_password.txt before it is removed
MaxNow == 3601      \* the clock stops at this many seconds

(***************************************************************************)
(* Program constants.                                                      *)
(***************************************************************************)
UNCHECK == 0
CHECKING == 1
CHECKED == 2
TimeoutSeconds == 3600
MinBatch == 100
PerCpu == 100
SampleDb == "lucky-sample.db"

None == "none"      \* an absent (undefined) field of a request or a response

\* the pwd column is UNIQUE: one distinct text per row
PwdList ==
   <<"aa", "bb", "cc", "dd", "ee", "p006", "p007", "p008", "p009", "p010",
      "p011", "p012", "p013", "p014", "p015", "p016", "p017", "p018", "p019", "p020",
      "p021", "p022", "p023", "p024", "p025", "p026", "p027", "p028", "p029", "p030",
      "p031", "p032", "p033", "p034", "p035", "p036", "p037", "p038", "p039", "p040",
      "p041", "p042", "p043", "p044", "p045", "p046", "p047", "p048", "p049", "p050",
      "p051", "p052", "p053", "p054", "p055", "p056", "p057", "p058", "p059", "p060",
      "p061", "p062", "p063", "p064", "p065", "p066", "p067", "p068", "p069", "p070",
      "p071", "p072", "p073", "p074", "p075", "p076", "p077", "p078", "p079", "p080",
      "p081", "p082", "p083", "p084", "p085", "p086", "p087", "p088", "p089", "p090",
      "p091", "p092", "p093", "p094", "p095", "p096", "p097", "p098", "p099", "p100",
      "p101", "p102", "p103", "p104", "p105", "p106", "p107", "p108", "p109", "p110">>
Rows == 1..NumRows
ClientIds == {"c1"}
CpuCounts == {0, 2}
DbNames == {"lucky.db", SampleDb}
BigDb == "lucky-big.db"
Tokens == {"", "tok"}
HandlerPcs == {"result_append", "result_ack", "found_append", "found_ack",
               "reset_copy", "reset_unlink", "reset_finish"}

VARIABLES
    dbName,         \* DB_NAME
    apiToken,       \* API_TOKEN
    records,        \* table records: id -> [pwd, status, updated_at]
    passwordFound,  \* the in-memory latch
    foundFile,      \* found_password.txt: number of stanzas, 0 = no file
    backups,        \* found_password_backup_*.txt: the set of their contents
    activeClients,  \* Map clientId -> last active time in ms, -1 = no entry
    now,            \* the server clock, in seconds
    inflight,       \* suspended handlers: await point -> how many wait there
    leased,         \* history: id -> lease responses that returned it since it
                    \*   was last put back to UNCHECK (capped at 2)
    ackedSinceReset,\* history: a success report or found-confirm was
                    \*   acknowledged, and no accepted reset-found handler ran
                    \*   between the arrival of that request and now
    resetOverlap,   \* history: an accepted reset-found handler ran while the
                    \*   reports and found-confirms now in flight were in flight
    cacheStats,     \* the last summary GET /work/stats computed, <<>> = null
    isUpdatingStats,\* a recomputation of the summary is under way
    client,         \* the worker process: the PasswordClient and its run()
    threads         \* the worker threads of the batch being processed

vars == <<dbName, apiToken, records, passwordFound, foundFile, backups,
          activeClients, now, inflight, leased, ackedSinceReset, resetOverlap,
          cacheStats, isUpdatingStats, client, threads>>

NowMs == now * 1000

\* startupTime: the server was first started at time 0, and .startup_time
\* keeps that time over every restart
startupTime == 0

\* The table of the model lists the rows of lowest id.  The store BigDb has
\* further rows of higher id, all UNCHECK, up to BigRows rows in all; the
\* other stores have none.
TailRows(db) == IF db = BigDb THEN BigRows - NumRows ELSE 0

Min2(a, b) == IF a < b THEN a ELSE b
Max2(a, b) == IF a > b THEN a ELSE b

(***************************************************************************)
(* Responses.                                                              *)
(***************************************************************************)
Reply(op, code, success, pf, pwds, n, msg) ==
    [op |-> op, code |-> code, success |-> success, passwordFound |-> pf,
     passwords |-> pwds, n |-> n, message |-> msg]

ErrorReply(op, code, msg) == Reply(op, code, FALSE, FALSE, <<>>, 0, msg)

(***************************************************************************)
(* The preHandler hook.  A header is a sequence of chunks: <<>> is an      *)
(* absent header, <<"Bearer ", t>> the text "Bearer t", <<t>> the text t.  *)
(***************************************************************************)
HeaderValues == {<<>>, <<"Bearer ", "tok">>, <<"tok">>, <<"bad">>}
Headers == [authorization : HeaderValues, xApiToken : HeaderValues]

StripBearer(token) == IF Len(token) > 1 /\ token[1] = "Bearer " THEN Tail(token) ELSE token

\* a hook that lets every request through: RejectedPostChangesNothing fails
\* with it
PreHandlerOpen(method, h) == 200

PreHandler(method, h) ==
    IF method # "POST" THEN 200
    ELSE IF apiToken = "" THEN 401
    ELSE LET token == IF h.authorization # <<>> THEN h.authorization ELSE h.xApiToken
         IN  IF token = <<>> THEN 401
             ELSE IF StripBearer(token) # <<apiToken>> THEN 403
             ELSE 200

\* some request headers pass the hook
Authorized == (\E h \in Headers : PreHandler("POST", h) = 200) = TRUE

(***************************************************************************)
(* The SQL statements, as functions of the table.                          *)
(***************************************************************************)
\* ORDER BY id: the ids of S, a set of row ids (positive integers), ascending
Ascending(S) ==
    LET top == IF S = {} THEN 0 ELSE CHOOSE x \in S : \A y \in S : y <= x
        InS(i) == i \in S
    IN  SelectSeq([i \in 1..top |-> i], InS)

\* a SELECT without the status filter on rows being checked: with it a lease
\* hands out rows that another lease holds, and NoDoubleLease fails
SelectNotChecked(recs, limit) ==
    LET ids == Ascending({i \in DOMAIN recs : recs[i].status # CHECKED})
    IN  SubSeq(ids, 1, Min2(limit, Len(ids)))

\* SELECT id, pwd FROM records WHERE status = ? ORDER BY id LIMIT ?
SelectUnchecked(recs, limit) ==
    LET ids == Ascending({i \in DOMAIN recs : recs[i].status = UNCHECK})
    IN  SubSeq(ids, 1, Min2(limit, Len(ids)))

SeqRange(s) == {s[k] : k \in 1..Len(s)}

\* a lease UPDATE that writes CHECKED: with it a lease makes a status change
\* that StatusChangesByOperation gives to the result report alone
MarkCheckingAsChecked(recs, ids, t) ==
    [i \in DOMAIN recs |->
        IF i \in SeqRange(ids) THEN [recs[i] EXCEPT !.status = CHECKED, !.updated_at = t]
        ELSE recs[i]]

\* a lease that leaves updated_at as it was: with it a row leased an hour
\* after it was seeded keeps the old time, and StatusChangeStamps fails
MarkCheckingNoStamp(recs, ids, t) ==
    [i \in DOMAIN recs |->
        IF i \in SeqRange(ids) THEN [recs[i] EXCEPT !.status = CHECKING] ELSE recs[i]]

\* UPDATE records SET status = CHECKING, updated_at = now WHERE id IN (...)
MarkChecking(recs, ids, t) ==
    [i \in DOMAIN recs |->
        IF i \in SeqRange(ids) THEN [recs[i] EXCEPT !.status = CHECKING, !.updated_at = t]
        ELSE recs[i]]

\* an UPDATE that takes only the rows out on lease: with it a report of a row
\* that was never leased changes nothing, and FailureReportFrame fails
UpdateByPwdLeasedOnly(recs, pwd, t) ==
    [i \in DOMAIN recs |->
        IF recs[i].pwd = pwd /\ recs[i].status = CHECKING
        THEN [recs[i] EXCEPT !.status = CHECKED, !.updated_at = t]
        ELSE recs[i]]

\* an UPDATE that leaves a row alone when it is CHECKED already: with it a
\* repeated report is the no-op that RepeatedReportRefreshesTime denies
UpdateByPwdOnce(recs, pwd, t) ==
    [i \in DOMAIN recs |->
        IF recs[i].pwd = pwd /\ recs[i].status # CHECKED
        THEN [recs[i] EXCEPT !.status = CHECKED, !.updated_at = t]
        ELSE recs[i]]

\* UPDATE records SET status = CHECKED, updated_at = now WHERE pwd = ?
UpdateByPwd(recs, pwd, t) ==
    [i \in DOMAIN recs |->
        IF recs[i].pwd = pwd THEN [recs[i] EXCEPT !.status = CHECKED, !.updated_at = t]
        ELSE recs[i]]

\* updateMany: the transaction that runs the update for each password in turn
RECURSIVE UpdateMany(_, _, _)
UpdateMany(recs, pwds, t) ==
    IF pwds = <<>> THEN recs
    ELSE UpdateMany(UpdateByPwd(recs, Head(pwds), t), Tail(pwds), t)

\* a reclaim without the age filter: with it a row that a lease has just
\* marked is put back at once, and LeaseReclaimSerial fails
IsStaleAnyAge(r, t) == r.status = CHECKING

\* a reclaim without the status filter: with it an old CHECKED row goes back
\* to UNCHECK, and CheckedIsFinal fails
IsStaleAnyStatus(r, t) == r.updated_at < t - TimeoutSeconds

\* UPDATE ... SET status = UNCHECK, updated_at = now
\*   WHERE status = CHECKING AND updated_at < now - 3600
IsStale(r, t) == r.status = CHECKING /\ r.updated_at < t - TimeoutSeconds

\* a reclaim that also takes the rows aged exactly one hour: ReclaimExact
\* fails with it
ReclaimStaleInclusive(recs, t) ==
    [i \in DOMAIN recs |->
        IF recs[i].status = CHECKING /\ recs[i].updated_at <= t - TimeoutSeconds
        THEN [recs[i] EXCEPT !.status = UNCHECK, !.updated_at = t]
        ELSE recs[i]]

ReclaimStale(recs, t) ==
    [i \in DOMAIN recs |->
        IF IsStale(recs[i], t) THEN [recs[i] EXCEPT !.status = UNCHECK, !.updated_at = t]
        ELSE recs[i]]

\* UPDATE records SET status = UNCHECK, updated_at = now
ResetAll(recs, t) ==
    [i \in DOMAIN recs |-> [recs[i] EXCEPT !.status = UNCHECK, !.updated_at = t]]

Changes(old, new) == Cardinality({i \in DOMAIN old : old[i] # new[i]})

(***************************************************************************)
(* Init: a freshly seeded store, no marker file, the process just started. *)
(***************************************************************************)
NoInflight == [p \in HandlerPcs |-> 0]

(***************************************************************************)
(* What requestWork returns to run(): null when fetch throws, else the     *)
(* body the server sent.  encrypt stands for "the encrypt data is whole".  *)
(***************************************************************************)
NoReply ==
    [received |-> FALSE, success |-> FALSE, passwordFound |-> FALSE,
     message |-> "", passwords |-> <<>>, encrypt |-> FALSE]

ErrorBody == [NoReply EXCEPT !.received = TRUE]

EmptyLease == [ErrorBody EXCEPT !.message = "No more passwords to check"]

LatchReply ==
    [ErrorBody EXCEPT !.message = "Password already found, no more work needed",
                      !.passwordFound = TRUE]

(***************************************************************************)
(* The worker process before run() is called (PasswordClient constructor). *)
(***************************************************************************)
NewClient ==
    [running |-> TRUE,          \* this.running
     foundPassword |-> None,    \* this.foundPassword
     at |-> "while",            \* where run() stands
     wake |-> -1,               \* when the 10 s timer run() waits on fires
     workRequest |-> NoReply,   \* what requestWork returned last
     passwords |-> <<>>,        \* the passwords of the lease being processed
     checkedPasswords |-> <<>>, \* result.checkedPasswords of the last failure
     encrypt |-> None,          \* the passphrase that opens the wallet
     reports |-> <<>>,          \* the calls of reportFoundPassword under way
     intervals |-> <<>>,        \* the setInterval timers and their closures
     submitted |-> <<>>,        \* history: passwords of the success report sent
     foundSent |-> FALSE,       \* history: a found-confirm request was sent
     unanswered |-> FALSE]      \* history: the submitResult run() awaited last
                                \*   returned null, and run() took no step since

Init ==
    /\ dbName \in DbNames
    /\ apiToken \in Tokens
    /\ records = [i \in Rows |-> [pwd |-> PwdList[i], status |-> UNCHECK, updated_at |-> 0]]
    /\ passwordFound = FALSE
    /\ foundFile = 0
    /\ backups = {}
    /\ activeClients = [c \in ClientIds |-> -1]
    /\ now = 0
    /\ inflight = NoInflight
    /\ leased = [i \in Rows |-> 0]
    /\ ackedSinceReset = FALSE
    /\ resetOverlap = FALSE
    /\ cacheStats = <<>>
    /\ isUpdatingStats = FALSE
    /\ client = NewClient
    /\ threads = <<>>

(***************************************************************************)
(* Handler helpers.                                                        *)
(***************************************************************************)
\* a batch size without the floor of 100: with it a worker that reports no
\* processor gets no work, and LeaseBatchExact fails
BatchSizeNoFloor(cpuCount) == cpuCount * PerCpu

\* Math.max(100, cpuCount * 100)
BatchSize(cpuCount) == Max2(MinBatch, cpuCount * PerCpu)

\* a lease that does not look at the latch: LatchRefusesLease fails with it
LatchIgnored(latch) == FALSE

\* if (passwordFound) in POST /work/request
LatchBlocksLease(latch) == latch

\* if (success && foundPassword) in POST /work/result
IsSuccessPath(body) == body.success /\ body.foundPassword # None

\* an append that writes the marker only once: with it a second found-confirm
\* adds no stanza, and FoundConfirmAppends fails
AppendStanzaOnce(file) == IF file > 0 THEN file ELSE 1

\* fs.promises.appendFile(resultFile, result): one more stanza, the file is
\* created when it does not exist
AppendStanza(file) == file + 1

\* the store policy turned round, the reset allowed on the production store
\* only: ResetRefusedOnProduction fails with it
ResetAllowedOnProduction(db) == db # SampleDb

\* a reset-found without the store policy: LatchSticky fails with it
ResetAlwaysAllowed(db) == TRUE

\* DB_NAME !== 'lucky-sample.db' refuses the reset
ResetAllowed(db) == db = SampleDb

\* a startup that does not look for the marker: RestartKeepsLatch fails with it
StartupLatchOff(file) == FALSE

\* fs.existsSync(foundPasswordFile) at startup sets the latch
StartupLatch(file) == file > 0

InflightTotal ==
    inflight["result_append"] + inflight["result_ack"] + inflight["found_append"]
    + inflight["found_ack"] + inflight["reset_copy"] + inflight["reset_unlink"]
    + inflight["reset_finish"]

CanSuspend == InflightTotal < MaxInflight
CanAppend == foundFile + inflight["result_append"] + inflight["found_append"] < MaxStanzas

Enter(pc) == [inflight EXCEPT ![pc] = @ + 1]
Leave(pc) == [inflight EXCEPT ![pc] = @ - 1]
Move(from, to) == [inflight EXCEPT ![from] = @ - 1, ![to] = @ + 1]

\* the history of lease responses forgets a row that is put back to UNCHECK
PutBack(old, new) ==
    [i \in DOMAIN leased |->
        IF old[i].status # UNCHECK /\ new[i].status = UNCHECK THEN 0 ELSE leased[i]]

\* suspended success reports and found-confirms, suspended reset-founds
ReportsInFlight(f) ==
    f["result_append"] + f["result_ack"] + f["found_append"] + f["found_ack"]
ResetsInFlight(f) == f["reset_copy"] + f["reset_unlink"] + f["reset_finish"]

\* history: a success report or a found-confirm arrives
HistReportStart ==
    /\ resetOverlap' = (\/ ReportsInFlight(inflight) > 0 /\ resetOverlap
                        \/ ResetsInFlight(inflight) > 0)
    /\ UNCHANGED ackedSinceReset

\* history: a success report or a found-confirm ends, acknowledged or not
HistReportEnd(acked) ==
    /\ ackedSinceReset' = IF acked /\ ~resetOverlap THEN TRUE ELSE ackedSinceReset
    /\ resetOverlap' = (resetOverlap /\ ReportsInFlight(inflight') > 0)

\* history: a step of a reset-found that passed the policy
HistResetStep ==
    /\ ackedSinceReset' = FALSE
    /\ resetOverlap' = (ReportsInFlight(inflight) > 0)

\* the passwords arrays of the reports: none, one stored password, all of
\* them in id order, one that is in no row ("zz"), alone and after a stored
\* one, and a list that names a row twice
ReportLists ==
    {<<>>, <<"zz">>, <<PwdList[1], "zz">>, <<PwdList[1], PwdList[1]>>}
    \cup {<<PwdList[i]>> : i \in Rows}
    \cup {[i \in Rows |-> PwdList[i]]}

\* the bodies of POST /work/result: the failure reports, the reports with
\* success = true with and without foundPassword, a failure report that
\* carries a foundPassword, and the bodies that lack batchId or clientId
ResultBodies ==
    [batchId : {"b1"}, clientId : {"c1"}, success : {FALSE},
     foundPassword : {None}, passwords : ReportLists]
    \cup [batchId : {"b1"}, clientId : {"c1"}, success : {TRUE},
          foundPassword : {None, "aa"}, passwords : {<<"aa">>}]
    \cup [batchId : {"b1"}, clientId : {"c1"}, success : {FALSE},
          foundPassword : {"aa"}, passwords : {<<"bb">>}]
    \cup [batchId : {None}, clientId : {"c1"}, success : {FALSE},
          foundPassword : {None}, passwords : {<<"aa">>}]
    \cup [batchId : {"b1"}, clientId : {None}, success : {TRUE},
          foundPassword : {"aa"}, passwords : {<<"aa">>}]


(***************************************************************************)
(* POST /work/request                                                      *)
(***************************************************************************)
\* the rows the SELECT returns
LeaseIds(cpuCount) == SelectUnchecked(records, BatchSize(cpuCount))

\* the body the handler returns
WorkRequestReply(clientId, cpuCount) ==
    IF clientId = None THEN ErrorReply("request", 400, "clientId is required")
    ELSE IF LatchBlocksLease(passwordFound)
    THEN Reply("request", 200, FALSE, TRUE, <<>>, 0, "Password already found, no more work needed")
    ELSE LET ids == LeaseIds(cpuCount)
         IN  IF Len(ids) = 0
             THEN Reply("request", 200, FALSE, FALSE, <<>>, 0, "No more passwords to check")
             ELSE Reply("request", 200, TRUE, FALSE,
                        [k \in 1..Len(ids) |-> records[ids[k]].pwd], Len(ids), "")

\* the handler, for a request the hook has let through
WorkRequestHandler(clientId, cpuCount) ==
    /\ IF clientId = None
       THEN UNCHANGED <<records, activeClients, leased>>
       ELSE /\ activeClients' = [activeClients EXCEPT ![clientId] = NowMs]
            /\ IF LatchBlocksLease(passwordFound) \/ Len(LeaseIds(cpuCount)) = 0
               THEN UNCHANGED <<records, leased>>
               ELSE /\ records' = MarkChecking(records, LeaseIds(cpuCount), now)
                    /\ leased' = [i \in Rows |->
                           IF records[i].pwd \in SeqRange(WorkRequestReply(clientId, cpuCount).passwords)
                           THEN Min2(leased[i] + 1, 2)
                           ELSE leased[i]]
    /\ UNCHANGED <<dbName, apiToken, cacheStats, isUpdatingStats,
                   passwordFound, foundFile, backups, now,
                   inflight, ackedSinceReset, resetOverlap>>

WorkRequest(clientId, cpuCount) ==
    /\ Authorized
    /\ WorkRequestHandler(clientId, cpuCount)
    /\ UNCHANGED <<client, threads>>

(***************************************************************************)
(* POST /work/result                                                       *)
(***************************************************************************)
ValidResult(body) == body.batchId # None /\ body.clientId # None

\* the else branch: the passwords of the body are marked CHECKED
FailurePath(recs, body, t) ==
    IF Len(body.passwords) > 0 THEN UpdateMany(recs, body.passwords, t) ELSE recs

\* the body returned without waiting: the 400 and 'Results recorded'
WorkResultReply(body) ==
    IF ~ValidResult(body) THEN ErrorReply("result", 400, "batchId and clientId are required")
    ELSE Reply("result", 200, TRUE, FALSE, <<>>, 0, "Results recorded")

\* the body returned after the appendFile of the success path
ResultAckReply == Reply("result", 200, TRUE, TRUE, <<>>, 0, "Password found! All work stopped!")

WorkResult(body) ==
    /\ Authorized
    /\ IF ~ValidResult(body)
       THEN UNCHANGED <<records, passwordFound, inflight, ackedSinceReset, resetOverlap>>
       ELSE IF IsSuccessPath(body)
       THEN /\ CanSuspend
            /\ CanAppend
            /\ passwordFound' = TRUE
            /\ inflight' = Enter("result_append")
            /\ HistReportStart
            /\ UNCHANGED records
       ELSE /\ records' = FailurePath(records, body, now)
            /\ UNCHANGED <<passwordFound, inflight, ackedSinceReset, resetOverlap>>
    /\ UNCHANGED <<client, threads, dbName, apiToken, cacheStats, isUpdatingStats,
                   foundFile, backups, activeClients, now, leased>>

\* the appendFile of the success path completes
ResultAppend ==
    /\ inflight["result_append"] > 0
    /\ foundFile' = AppendStanza(foundFile)
    /\ inflight' = Move("result_append", "result_ack")
    /\ UNCHANGED <<client, threads, dbName, apiToken, cacheStats, isUpdatingStats,
                   records, passwordFound, backups, activeClients,
                   now, leased, ackedSinceReset, resetOverlap>>

\* the appendFile throws: the catch block answers 500
ResultAppendFail ==
    /\ inflight["result_append"] > 0
    /\ inflight' = Leave("result_append")
    /\ HistReportEnd(FALSE)
    /\ UNCHANGED <<client, threads, dbName, apiToken, cacheStats, isUpdatingStats,
                   records, passwordFound, foundFile, backups,
                   activeClients, now, leased>>

\* the handler resumes after the await and returns ResultAckReply
ResultAck ==
    /\ inflight["result_ack"] > 0
    /\ inflight' = Leave("result_ack")
    /\ HistReportEnd(TRUE)
    /\ UNCHANGED <<client, threads, dbName, apiToken, cacheStats, isUpdatingStats,
                   records, passwordFound, foundFile, backups,
                   activeClients, now, leased>>

(***************************************************************************)
(* POST /work/found                                                        *)
(***************************************************************************)
ValidFound(password, clientId) == password # None /\ clientId # None

FoundAckReply == Reply("found", 200, TRUE, TRUE, <<>>, 0, "Password confirmed and saved")

WorkFound(password, clientId) ==
    /\ Authorized
    /\ IF ~ValidFound(password, clientId)
       THEN UNCHANGED <<passwordFound, inflight, ackedSinceReset, resetOverlap>>
       ELSE /\ CanSuspend
            /\ CanAppend
            /\ passwordFound' = TRUE
            /\ inflight' = Enter("found_append")
            /\ HistReportStart
    /\ UNCHANGED <<client, threads, dbName, apiToken, cacheStats, isUpdatingStats,
                   records, foundFile, backups, activeClients, now,
                   leased>>

\* the appendFile of the found-confirm completes
FoundAppend ==
    /\ inflight["found_append"] > 0
    /\ foundFile' = AppendStanza(foundFile)
    /\ inflight' = Move("found_append", "found_ack")
    /\ UNCHANGED <<client, threads, dbName, apiToken, cacheStats, isUpdatingStats,
                   records, passwordFound, backups, activeClients,
                   now, leased, ackedSinceReset, resetOverlap>>

\* the appendFile throws: the catch block answers 500
FoundAppendFail ==
    /\ inflight["found_append"] > 0
    /\ inflight' = Leave("found_append")
    /\ HistReportEnd(FALSE)
    /\ UNCHANGED <<client, threads, dbName, apiToken, cacheStats, isUpdatingStats,
                   records, passwordFound, foundFile, backups,
                   activeClients, now, leased>>

\* the handler resumes after the await and returns FoundAckReply
FoundAck ==
    /\ inflight["found_ack"] > 0
    /\ inflight' = Leave("found_ack")
    /\ HistReportEnd(TRUE)
    /\ UNCHANGED <<client, threads, dbName, apiToken, cacheStats, isUpdatingStats,
                   records, passwordFound, foundFile, backups,
                   activeClients, now, leased>>

(***************************************************************************)
(* POST /work/reset-found                                                  *)
(***************************************************************************)
\* passwordFound = false and the UPDATE of every row, after which the handler
\* returns success with recordsReset = the number of rows
ResetEffects ==
    /\ passwordFound' = FALSE
    /\ records' = ResetAll(records, now)
    /\ leased' = PutBack(records, ResetAll(records, now))
    /\ HistResetStep

ResetFoundReply ==
    IF ~ResetAllowed(dbName)
    THEN ErrorReply("reset-found", 403, "Reset is only allowed for sample database")
    ELSE Reply("reset-found", 200, TRUE, FALSE, <<>>, Cardinality(DOMAIN records), "reset")

ResetFound ==
    /\ Authorized
    /\ IF ~ResetAllowed(dbName)
       THEN UNCHANGED <<records, passwordFound, inflight, leased, ackedSinceReset,
                        resetOverlap>>
       ELSE IF foundFile > 0
       THEN /\ CanSuspend
            /\ inflight' = Enter("reset_copy")
            /\ HistResetStep
            /\ UNCHANGED <<records, passwordFound, leased>>
       ELSE /\ ResetEffects
            /\ UNCHANGED inflight
    /\ UNCHANGED <<client, threads, dbName, apiToken, cacheStats, isUpdatingStats,
                   foundFile, backups, activeClients, now>>

\* copyFile(found_password.txt, backup) completes; the handler goes on to unlink
ResetCopy ==
    /\ inflight["reset_copy"] > 0
    /\ foundFile > 0
    /\ backups' = backups \cup {foundFile}
    /\ inflight' = Move("reset_copy", "reset_unlink")
    /\ HistResetStep
    /\ UNCHANGED <<client, threads, dbName, apiToken, cacheStats, isUpdatingStats,
                   records, passwordFound, foundFile, activeClients,
                   now, leased>>

\* copyFile throws (the file is gone, or an I/O error): the handler answers 500
ResetCopyFail ==
    /\ inflight["reset_copy"] > 0
    /\ inflight' = Leave("reset_copy")
    /\ HistResetStep
    /\ UNCHANGED <<client, threads, dbName, apiToken, cacheStats, isUpdatingStats,
                   records, passwordFound, foundFile, backups,
                   activeClients, now, leased>>

\* unlink(found_password.txt) completes
ResetUnlink ==
    /\ inflight["reset_unlink"] > 0
    /\ foundFile > 0
    /\ foundFile' = 0
    /\ inflight' = Move("reset_unlink", "reset_finish")
    /\ HistResetStep
    /\ UNCHANGED <<client, threads, dbName, apiToken, cacheStats, isUpdatingStats,
                   records, passwordFound, backups, activeClients,
                   now, leased>>

\* unlink throws: the handler answers 500
ResetUnlinkFail ==
    /\ inflight["reset_unlink"] > 0
    /\ inflight' = Leave("reset_unlink")
    /\ HistResetStep
    /\ UNCHANGED <<client, threads, dbName, apiToken, cacheStats, isUpdatingStats,
                   records, passwordFound, foundFile, backups,
                   activeClients, now, leased>>

\* the handler resumes after the unlink
ResetFinish ==
    /\ inflight["reset_finish"] > 0
    /\ inflight' = Leave("reset_finish")
    /\ ResetEffects
    /\ UNCHANGED <<client, threads, dbName, apiToken, cacheStats, isUpdatingStats,
                   foundFile, backups, activeClients, now>>

(***************************************************************************)
(* POST /work/reset-timeout and the 60-minute setInterval task             *)
(***************************************************************************)
ResetTimeoutReply ==
    Reply("reset-timeout", 200, TRUE, FALSE, <<>>,
          Changes(records, ReclaimStale(records, now)), "Reset timed out checking records")

ResetTimeout ==
    /\ Authorized
    /\ records' = ReclaimStale(records, now)
    /\ leased' = PutBack(records, ReclaimStale(records, now))
    /\ UNCHANGED <<client, threads, dbName, apiToken, cacheStats, isUpdatingStats,
                   passwordFound, foundFile, backups, activeClients,
                   now, inflight, ackedSinceReset, resetOverlap>>

\* a timer task that reclaims nothing: StaleLeaseReclaimed fails with it
SweeperIdle == UNCHANGED vars

Sweeper ==
    /\ records' = ReclaimStale(records, now)
    /\ leased' = PutBack(records, ReclaimStale(records, now))
    /\ UNCHANGED <<client, threads, dbName, apiToken, cacheStats, isUpdatingStats,
                   passwordFound, foundFile, backups, activeClients,
                   now, inflight, ackedSinceReset, resetOverlap>>

(***************************************************************************)
(* GET /work/stats.  The preHandler hook lets a GET through.  The handler  *)
(* has no await; the snapshot it stores in cacheStats is read again only   *)
(* when calculateCacheTime is positive, which takes more than 10000 rows.  *)
(***************************************************************************)
\* a cache time without the cap of 60 minutes: CacheRule fails with it
calculateCacheTimeNoCap(totalCount) ==
    IF totalCount <= 10000 THEN 0
    ELSE (totalCount \div 1000000) * 60 * 1000

\* calculateCacheTime: how long a summary may be served again, in ms
calculateCacheTime(totalCount) ==
    IF totalCount <= 10000 THEN 0
    ELSE Min2(totalCount \div 1000000, 60) * 60 * 1000

\* getActiveClientsInfo deletes the entries older than one hour
ActiveClientsAfterStats ==
    [c \in DOMAIN activeClients |->
        IF activeClients[c] < NowMs - 60 * 60 * 1000 THEN -1 ELSE activeClients[c]]

\* a sort the other way round, the oldest entry first: LivenessWindow fails
\* with it
RECURSIVE OldestFirst(_, _)
OldestFirst(reg, S) ==
    IF S = {} THEN <<>>
    ELSE LET c == CHOOSE x \in S : \A y \in S : reg[x] <= reg[y]
         IN  <<[clientId |-> c, lastActiveTime |-> reg[c],
                lastActiveDuration |-> (NowMs - reg[c]) \div 1000]>>
             \o OldestFirst(reg, S \ {c})

\* activeClientsList.sort((a, b) => b.lastActiveTime - a.lastActiveTime) on
\* the entries of the clients in S, read from the registry reg
RECURSIVE MostRecentFirst(_, _)
MostRecentFirst(reg, S) ==
    IF S = {} THEN <<>>
    ELSE LET c == CHOOSE x \in S : \A y \in S : reg[y] <= reg[x]
         IN  <<[clientId |-> c, lastActiveTime |-> reg[c],
                lastActiveDuration |-> (NowMs - reg[c]) \div 1000]>>
             \o MostRecentFirst(reg, S \ {c})

\* the value getActiveClientsInfo returns
ClientsInfo ==
    LET kept == {c \in DOMAIN activeClients : ActiveClientsAfterStats[c] >= 0}
    IN  [count |-> Cardinality(kept), clients |-> MostRecentFirst(activeClients, kept)]

\* COUNT(*) of one status group: the rows of the table, and for UNCHECK the
\* rows of higher id that the table of the model does not list
CountStatus(st) ==
    Cardinality({i \in DOMAIN records : records[i].status = st})
    + (IF st = UNCHECK THEN TailRows(dbName) ELSE 0)

\* the status groups the GROUP BY returns
StatusGroups == {records[i].status : i \in DOMAIN records}
                \cup (IF TailRows(dbName) > 0 THEN {UNCHECK} ELSE {})

\* a total that keeps the count of one group instead of adding the groups
\* up: BucketsSumToTotal fails with it
SumCountsOverwrite(S) == IF S = {} THEN 0 ELSE CountStatus(CHOOSE x \in S : TRUE)

\* summary.total += stat.count, over the groups
RECURSIVE SumCounts(_)
SumCounts(S) ==
    IF S = {} THEN 0
    ELSE LET st == CHOOSE x \in S : TRUE IN CountStatus(st) + SumCounts(S \ {st})

\* the summary a recomputation builds
StatsSummary ==
    [uncheck |-> IF UNCHECK \in StatusGroups THEN CountStatus(UNCHECK) ELSE 0,
     checking |-> IF CHECKING \in StatusGroups THEN CountStatus(CHECKING) ELSE 0,
     checked |-> IF CHECKED \in StatusGroups THEN CountStatus(CHECKED) ELSE 0,
     timeout |-> Cardinality({i \in DOMAIN records : IsStale(records[i], now)}),
     total |-> SumCounts(StatusGroups),
     passwordFound |-> passwordFound,
     resetAllowed |-> ResetAllowed(dbName), tokenRequired |-> apiToken # "",
     activeClients |-> ClientsInfo.count,
     activeClientsList |-> ClientsInfo.clients,
     updated_at |-> NowMs,
     uptime |-> (NowMs - startupTime) \div 1000]

\* cacheStats is set and younger than its cache time
CacheHit ==
    /\ cacheStats # <<>>
    /\ calculateCacheTime(cacheStats[1].total) > 0
    /\ NowMs - cacheStats[1].updated_at < calculateCacheTime(cacheStats[1].total)

UpdatingError == [error |-> "Statistics are being updated, please try again later"]

\* the body GET /work/stats returns when its SELECT does not throw, for a
\* value of the flag isUpdatingStats
StatsReplyIf(updating) ==
    IF CacheHit
    THEN [cacheStats[1] EXCEPT !.activeClients = ClientsInfo.count,
                               !.activeClientsList = ClientsInfo.clients]
    ELSE IF updating
    THEN (IF cacheStats # <<>> THEN cacheStats[1] ELSE UpdatingError)
    ELSE StatsSummary

StatsReply == StatsReplyIf(isUpdatingStats)

\* a recomputation without the finally block: the flag stays set when the
\* recomputation ends, and OneRecomputation fails
LeaveUpdating(flag) == flag

\* finally { isUpdatingStats = false }
ClearUpdating(flag) == FALSE

Stats ==
    /\ PreHandler("GET", [authorization |-> <<>>, xApiToken |-> <<>>]) = 200
    /\ IF CacheHit
       THEN /\ activeClients' = ActiveClientsAfterStats
            /\ UNCHANGED <<cacheStats, isUpdatingStats>>
       ELSE IF isUpdatingStats
       THEN UNCHANGED <<activeClients, cacheStats, isUpdatingStats>>
       ELSE /\ activeClients' = ActiveClientsAfterStats
            /\ cacheStats' = <<StatsSummary>>
            /\ isUpdatingStats' = ClearUpdating(TRUE)
    /\ UNCHANGED <<client, threads, dbName, apiToken, records, passwordFound, foundFile, backups, now,
                   inflight, leased, ackedSinceReset, resetOverlap>>


\* GET /work/stats when the SELECT throws: the flag is set, the finally block
\* clears it, and the handler answers 500
StatsFail ==
    /\ PreHandler("GET", [authorization |-> <<>>, xApiToken |-> <<>>]) = 200
    /\ ~CacheHit
    /\ ~isUpdatingStats
    /\ isUpdatingStats' = ClearUpdating(TRUE)
    /\ UNCHANGED <<client, threads, dbName, apiToken, records, passwordFound, foundFile, backups, now,
                   inflight, leased, ackedSinceReset, resetOverlap, activeClients,
                   cacheStats>>

(***************************************************************************)
(* A POST the preHandler hook turns away: the handler does not run.        *)
(***************************************************************************)
Rejected ==
    /\ (\E h \in Headers : PreHandler("POST", h) # 200) = TRUE
    /\ UNCHANGED vars

(***************************************************************************)
(* The clock, and a restart of the process (main).                         *)
(***************************************************************************)
Tick(d) ==
    /\ now + d <= MaxNow
    /\ now' = now + d
    /\ UNCHANGED <<client, threads, dbName, apiToken, cacheStats, isUpdatingStats,
                   records, passwordFound, foundFile, backups,
                   activeClients, inflight, leased, ackedSinceReset, resetOverlap>>

Restart ==
    /\ passwordFound' = StartupLatch(foundFile)
    /\ activeClients' = [c \in DOMAIN activeClients |-> -1]
    /\ inflight' = NoInflight
    /\ resetOverlap' = FALSE
    /\ cacheStats' = <<>>
    /\ isUpdatingStats' = FALSE
    /\ UNCHANGED <<client, threads, dbName, apiToken, records, foundFile, backups, now, leased,
                   ackedSinceReset>>

(***************************************************************************)
(* The next-state relations.                                               *)
(***************************************************************************)
\* a request arrives and its handler runs up to its first await.  GET
\* /work/stats is left to SpecStats and SpecSweep: it writes cacheStats,
\* isUpdatingStats and activeClients, which no other handler reads.
Requests ==
    \/ \E c \in ClientIds \cup {None}, n \in CpuCounts : WorkRequest(c, n)
    \/ \E b \in ResultBodies : WorkResult(b)
    \/ \E p \in {None, "aa"}, c \in {None, "c1"} : WorkFound(p, c)
    \/ ResetFound
    \/ ResetTimeout
    \/ Sweeper
    \/ Rejected

\* a file-system call of a suspended handler ends, or the handler resumes
Steps ==
    \/ ResultAppend
    \/ ResultAppendFail
    \/ ResultAck
    \/ FoundAppend
    \/ FoundAppendFail
    \/ FoundAck
    \/ ResetCopy
    \/ ResetCopyFail
    \/ ResetUnlink
    \/ ResetUnlinkFail
    \/ ResetFinish

Ticks == \E d \in {TimeoutSeconds, TimeoutSeconds + 1} : Tick(d)

Next == Requests \/ Steps \/ Ticks \/ Restart

Spec == Init /\ [][Next]_vars

\* The clock stands still: every interleaving of the handlers and of their
\* file-system calls, within one second.
NextFrozen == Requests \/ Steps \/ Restart

SpecFrozen == Init /\ [][NextFrozen]_vars

\* The clock runs, and a request arrives or the clock advances only while no
\* handler is suspended: the awaits of a handler last milliseconds, the
\* timeout an hour.
Idle == InflightTotal = 0

NextSerial ==
    \/ \E c \in ClientIds \cup {None}, n \in CpuCounts : Idle /\ WorkRequest(c, n)
    \/ \E b \in ResultBodies : Idle /\ WorkResult(b)
    \/ \E p \in {None, "aa"}, c \in {None, "c1"} : Idle /\ WorkFound(p, c)
    \/ Idle /\ ResetFound
    \/ Idle /\ ResetTimeout
    \/ Idle /\ Sweeper
    \/ Idle /\ Rejected
    \/ \E d \in {TimeoutSeconds, TimeoutSeconds + 1} : Idle /\ Tick(d)
    \/ Steps
    \/ Restart

SpecSerial == Init /\ [][NextSerial]_vars

TypeOK ==
    /\ dbName \in DbNames
    /\ passwordFound \in BOOLEAN
    /\ foundFile \in 0..MaxStanzas
    /\ InflightTotal <= MaxInflight
    /\ \A i \in Rows : records[i].status \in {UNCHECK, CHECKING, CHECKED}

(***************************************************************************)
(* Steps of the handlers, as predicates on a pair of states.               *)
(***************************************************************************)
\* an accepted lease request: authorized, with a worker id
LeaseStep == \E c \in ClientIds, n \in CpuCounts : WorkRequest(c, n)

\* a result report that is handled on the failure path
FailureReport(b) == ValidResult(b) /\ ~IsSuccessPath(b)
FailureReportStep == \E b \in ResultBodies : FailureReport(b) /\ WorkResult(b)

ReclaimStep == ResetTimeout \/ Sweeper

\* the step of a reset-found that clears the latch and resets the rows, on the
\* sample store
ResetFoundStep == dbName = SampleDb /\ (ResetFound \/ ResetFinish)

StatusOf(i) == records[i].status

(***************************************************************************)
(* The lease state machine.                                                *)
(***************************************************************************)
\* C1: no row is returned by two lease responses unless it was put back to
\* UNCHECK (by reset-timeout, the sweeper or reset-found) between the two.
NoDoubleLease == \A i \in Rows : leased[i] <= 1

\* a row leased again after the reclaim, next to a row that was leased with
\* it the first time and reported since
LeasedAgain ==
    \E i, j \in Rows :
        /\ leased[i] = 1 /\ StatusOf(i) = CHECKING /\ records[i].updated_at > TimeoutSeconds
        /\ leased[j] = 1 /\ StatusOf(j) = CHECKED /\ records[j].updated_at <= TimeoutSeconds

\* C2, as stated: every status change is UNCHECK->CHECKING, CHECKING->CHECKED,
\* CHECKING->UNCHECK or any->UNCHECK by reset-found; in particular no step
\* moves a row from UNCHECK directly to CHECKED.
FourTransitionsOnly ==
    [][\A i \in Rows :
          StatusOf(i)' # StatusOf(i) =>
              \/ StatusOf(i) = UNCHECK /\ StatusOf(i)' = CHECKING /\ LeaseStep
              \/ StatusOf(i) = CHECKING /\ StatusOf(i)' = CHECKED /\ FailureReportStep
              \/ StatusOf(i) = CHECKING /\ StatusOf(i)' = UNCHECK /\ ReclaimStep
              \/ StatusOf(i)' = UNCHECK /\ ResetFoundStep]_vars

\* C2, amended: every status change is UNCHECK->CHECKING by a lease,
\* CHECKING->CHECKED or UNCHECK->CHECKED by a result report handled on the
\* failure path, CHECKING->UNCHECK by a reclaim (reset-timeout or sweeper), or
\* any->UNCHECK by a reset-found on the sample store.
StatusChangesByOperation ==
    [][\A i \in Rows :
          StatusOf(i)' # StatusOf(i) =>
              \/ StatusOf(i) = UNCHECK /\ StatusOf(i)' = CHECKING /\ LeaseStep
              \/ StatusOf(i) \in {UNCHECK, CHECKING} /\ StatusOf(i)' = CHECKED
                    /\ FailureReportStep
              \/ StatusOf(i) = CHECKING /\ StatusOf(i)' = UNCHECK /\ ReclaimStep
              \/ StatusOf(i)' = UNCHECK /\ ResetFoundStep]_vars

\* a row that is CHECKED and that no lease response has returned
CheckedNeverLeased == \E i \in Rows : StatusOf(i) = CHECKED /\ leased[i] = 0

\* C3: a CHECKED row stays CHECKED through every step but a reset-found that
\* passes the sample-store policy, which puts it back to UNCHECK.
CheckedIsFinal ==
    [][\A i \in Rows :
          StatusOf(i) = CHECKED /\ StatusOf(i)' # CHECKED =>
              StatusOf(i)' = UNCHECK /\ ResetFoundStep]_vars

\* on the production store, a row reported at time 0 is still CHECKED after a
\* reclaim that ran more than an hour later and put another row back
CheckedSurvivedReclaim ==
    /\ dbName # SampleDb
    /\ \E i, j \in Rows :
          /\ StatusOf(i) = CHECKED /\ records[i].updated_at = 0
          /\ StatusOf(j) = UNCHECK /\ records[j].updated_at > TimeoutSeconds

(***************************************************************************)
(* The latch and its marker file.                                          *)
(***************************************************************************)
\* C4: a lease request handled while the latch is set is answered with
\* success = false, passwordFound = true and no passwords, and it leaves
\* every row as it is.
LatchRefusesLease ==
    [][\A c \in ClientIds, n \in CpuCounts :
          passwordFound /\ WorkRequest(c, n) =>
              /\ WorkRequestReply(c, n).success = FALSE
              /\ WorkRequestReply(c, n).passwordFound = TRUE
              /\ WorkRequestReply(c, n).passwords = <<>>
              /\ records' = records]_vars

\* on the production store the latch is set, a worker has asked for work, and
\* no row was ever handed out
LeaseRefused ==
    /\ dbName # SampleDb
    /\ passwordFound
    /\ \E c \in ClientIds : activeClients[c] >= 0
    /\ \A i \in Rows : StatusOf(i) = UNCHECK /\ records[i].updated_at = 0

\* C5: the latch, once set, is cleared by no lease, result, found-confirm,
\* reset-timeout, stats or sweeper step: only by a reset-found that passes the
\* sample-store policy (a restart of the process sets the in-memory latch
\* anew from the marker file).
LatchSticky ==
    [][passwordFound /\ ~passwordFound' => ResetFoundStep \/ Restart]_vars

\* the latch is set again after a reset-found that backed up a marker of two
\* stanzas and removed it
LatchSetAfterReset ==
    /\ dbName = SampleDb
    /\ passwordFound
    /\ MaxStanzas \in backups
    /\ foundFile = 1

\* C6, as stated: whenever the acknowledgement of a success report is sent,
\* the marker file exists and the latch is set.
AckImpliesLatchAndMarker ==
    [][ResultAck => passwordFound /\ foundFile > 0]_vars

\* C7, as stated: every accepted result report with success = true sets the
\* latch and marks no row, with or without the foundPassword field.
SuccessFlagTakesSuccessPath ==
    [][\A b \in ResultBodies :
          ValidResult(b) /\ b.success /\ WorkResult(b) =>
              passwordFound' /\ records' = records]_vars

\* C8: when a success report or a found-confirm was acknowledged and no
\* reset-found was accepted from the arrival of that request on, a restart
\* comes up with the latch set and the first lease request is refused with
\* passwordFound = true.
RestartKeepsLatch ==
    [][ackedSinceReset /\ Restart =>
          /\ passwordFound'
          /\ \A c \in ClientIds, n \in CpuCounts :
                 /\ WorkRequestReply(c, n)'.success = FALSE
                 /\ WorkRequestReply(c, n)'.passwordFound = TRUE]_vars

\* just after a restart (no worker on record, nothing in flight) that
\* followed an acknowledged report, the latch is set
RestartedWithLatch ==
    /\ ackedSinceReset
    /\ passwordFound
    /\ InflightTotal = 0
    /\ \A c \in ClientIds : activeClients[c] = -1
    /\ \E i \in Rows : StatusOf(i) = CHECKING

\* C9: every found-confirm with a password and a worker id sets the latch,
\* its append adds exactly one stanza to the marker file, and none of its
\* steps changes a row: N calls leave the latch set and add N stanzas.
FoundConfirmAppends ==
    [][/\ \A p \in {"aa"}, c \in ClientIds :
             WorkFound(p, c) =>
                 passwordFound' /\ foundFile' = foundFile /\ records' = records
       /\ FoundAppend =>
             /\ foundFile' = foundFile + 1
             /\ passwordFound' = passwordFound /\ records' = records
       /\ FoundAck =>
             /\ foundFile' = foundFile
             /\ passwordFound' = passwordFound /\ records' = records]_vars

\* the second found-confirm has appended its stanza and waits to answer
SecondStanzaAppended ==
    /\ inflight["found_ack"] > 0
    /\ foundFile = 2
    /\ passwordFound
    /\ \A i \in Rows : StatusOf(i) = UNCHECK /\ records[i].updated_at = 0

(***************************************************************************)
(* The failure report, repeated.                                           *)
(***************************************************************************)
Listed(i, b) == records[i].pwd \in SeqRange(b.passwords)

\* a failure report whose listed rows are all CHECKED already, as a first
\* call with the same body leaves them
RepeatedReport(b) ==
    FailureReport(b) /\ \A i \in Rows : Listed(i, b) => StatusOf(i) = CHECKED

\* C10, as stated: the second call of the same failure report is a no-op that
\* leaves the status and updated_at of every row as the first call left them.
RepeatedReportIsNoOp ==
    \A b \in ResultBodies :
        RepeatedReport(b) => FailurePath(records, b, now) = records

\* the table a failure report has to leave: every listed row CHECKED with
\* updated_at at the time of the call, every other row as it was
ReportOutcome(b) ==
    [i \in Rows |->
        IF Listed(i, b) THEN [records[i] EXCEPT !.status = CHECKED, !.updated_at = now]
        ELSE records[i]]

\* C10, amended: a failure report leaves every listed row CHECKED with
\* updated_at set to the time of that call and every other row untouched; so
\* the second call of the same report changes no status, and it moves the
\* updated_at of the listed rows to its own time.
RepeatedReportRefreshesTime ==
    \A b \in ResultBodies :
        FailureReport(b) =>
            /\ FailurePath(records, b, now) = ReportOutcome(b)
            /\ RepeatedReport(b) =>
                  \A i \in Rows : ReportOutcome(b)[i].status = StatusOf(i)

\* on the production store a row that was CHECKED at time 0 (the lease of
\* time 0 left it out) carries the time of a later report
ReportedAgain ==
    /\ dbName # SampleDb
    /\ \E i, j \in Rows :
          /\ StatusOf(i) = CHECKED /\ leased[i] = 0 /\ records[i].updated_at > 0
          /\ StatusOf(j) = CHECKING /\ leased[j] = 1 /\ records[j].updated_at = 0

(***************************************************************************)
(* The reclaim of stale leases.                                            *)
(***************************************************************************)
\* the rows that are CHECKING and older than 3600 s
OverAge == {i \in Rows : StatusOf(i) = CHECKING /\ records[i].updated_at < now - 3600}

\* C11: a reclaim (reset-timeout or sweeper) flips to UNCHECK exactly the rows
\* that are CHECKING and older than 3600 s, resetCount is their number, every
\* other row keeps its status and updated_at, and afterwards no row is
\* CHECKING with updated_at < now - 3600.
ReclaimExact ==
    LET after == ReclaimStale(records, now)
    IN  /\ after = [i \in Rows |->
                       IF i \in OverAge
                       THEN [records[i] EXCEPT !.status = UNCHECK, !.updated_at = now]
                       ELSE records[i]]
        /\ ResetTimeoutReply.n = Cardinality(OverAge)
        /\ \A i \in Rows :
               ~(after[i].status = CHECKING /\ after[i].updated_at < now - 3600)

\* on the production store every row was reclaimed at a time past the hour
AllReclaimed ==
    /\ dbName # SampleDb
    /\ now > TimeoutSeconds
    /\ \A i \in Rows : StatusOf(i) = UNCHECK /\ records[i].updated_at = now /\ leased[i] = 0

(***************************************************************************)
(* The sweeper keeps running.  The store operations alone (the latch is    *)
(* never set, no handler has an await), a clock that goes on to its        *)
(* horizon, and a timer task that runs whenever it has a row to reclaim.   *)
(***************************************************************************)
FailureBodies == {b \in ResultBodies : ~IsSuccessPath(b)}

\* the clock moves on to the horizon
TickOn == now < MaxNow /\ Tick(MaxNow - now)

NextSweep ==
    \/ \E c \in ClientIds \cup {None}, n \in CpuCounts : WorkRequest(c, n)
    \/ \E b \in FailureBodies : WorkResult(b)
    \/ ResetFound
    \/ ResetTimeout
    \/ Sweeper
    \/ Stats
    \/ Rejected
    \/ Ticks
    \/ TickOn

SpecSweep == Init /\ [][NextSweep]_vars /\ WF_vars(Sweeper) /\ WF_vars(TickOn)

\* C12: a leased row does not stay CHECKING forever: with the clock going on
\* and the sweeper running, a row that is CHECKING and can grow older than
\* 3600 s within the horizon leaves CHECKING (the sweeper puts it back to
\* UNCHECK unless a report or a reset got there first), and a row that is
\* UNCHECK is among the rows the next lease selects.
StaleLeaseReclaimed ==
    /\ \A i \in Rows :
           (StatusOf(i) = CHECKING /\ records[i].updated_at + 3600 < MaxNow)
               ~> (StatusOf(i) # CHECKING)
    /\ [](\A i \in Rows, n \in CpuCounts :
             StatusOf(i) = UNCHECK => i \in SeqRange(LeaseIds(n)))

\* on the production store a row that was leased and not reported is back to
\* UNCHECK at the horizon, next to a row of the same lease that was reported
ReclaimedUnreported ==
    /\ dbName # SampleDb
    /\ now = MaxNow
    /\ \E i, j \in Rows :
          /\ StatusOf(i) = UNCHECK /\ records[i].updated_at = MaxNow /\ leased[i] = 0
          /\ StatusOf(j) = CHECKED /\ records[j].updated_at = 0 /\ leased[j] = 1

(***************************************************************************)
(* Lease and reclaim, interleaved.                                         *)
(***************************************************************************)
Reserved(i) == StatusOf(i) = UNCHECK /\ StatusOf(i)' = CHECKING
Reclaimed(i) == StatusOf(i) = CHECKING /\ StatusOf(i)' = UNCHECK

\* C13: a lease and a reclaim never act in one step: a step reserves rows or
\* reclaims rows, not both, a lease reserves only rows that are UNCHECK when
\* it runs, and a reclaim leaves alone every row that a lease marked CHECKING
\* at the same instant; so every interleaving is a serial order.
LeaseReclaimSerial ==
    [][/\ ~(\E i, j \in Rows : Reserved(i) /\ Reclaimed(j))
       /\ LeaseStep => \A i \in Rows : StatusOf(i)' # StatusOf(i) => Reserved(i)
       /\ ReclaimStep =>
             \A i \in Rows :
                 /\ StatusOf(i)' # StatusOf(i) => Reclaimed(i)
                 /\ StatusOf(i) = CHECKING /\ records[i].updated_at = now
                       => records[i]' = records[i]]_vars

\* on the production store a row leased at time 0 was reclaimed and leased
\* again at one and the same later instant
ReclaimAndLeaseSameInstant ==
    /\ dbName # SampleDb
    /\ now = MaxNow
    /\ \E c \in ClientIds : activeClients[c] = NowMs
    /\ \E i, j \in Rows :
          /\ StatusOf(i) = CHECKING /\ records[i].updated_at = now /\ leased[i] = 1
          /\ StatusOf(j) = CHECKED /\ records[j].updated_at = 0 /\ leased[j] = 1

(***************************************************************************)
(* The batch of a lease, on a table with more rows than the smallest       *)
(* batch: the LIMIT of the SELECT cuts.                                    *)
(***************************************************************************)
CpuCountsWide == {-1, 0, 1, 2}

InitBatch ==
    /\ dbName \in DbNames
    /\ apiToken = "tok"
    /\ records = [i \in 1..ManyRows |-> [pwd |-> PwdList[i], status |-> UNCHECK, updated_at |-> 0]]
    /\ passwordFound = FALSE
    /\ foundFile = 0
    /\ backups = {}
    /\ activeClients = [c \in ClientIds |-> -1]
    /\ now = 0
    /\ inflight = NoInflight
    /\ leased = [i \in Rows |-> 0]
    /\ ackedSinceReset = FALSE
    /\ resetOverlap = FALSE
    /\ cacheStats = <<>>
    /\ isUpdatingStats = FALSE
    /\ client = NewClient
    /\ threads = <<>>

NextBatch ==
    \/ \E c \in ClientIds, n \in CpuCountsWide : WorkRequest(c, n)
    \/ \E b \in FailureBodies : WorkResult(b)
    \/ ResetTimeout
    \/ Ticks

SpecBatch == InitBatch /\ [][NextBatch]_vars

Unchecked == {i \in DOMAIN records : records[i].status = UNCHECK}

\* what a lease of a worker with n processors has to hand out
BatchExact(n, want) ==
    LET ids == LeaseIds(n)
        got == SeqRange(ids)
    IN  /\ Len(ids) = want
        /\ \A k \in 1..(Len(ids) - 1) : ids[k] < ids[k + 1]
        /\ got \subseteq Unchecked
        /\ \A i \in Unchecked \ got : \A j \in got : j < i
        /\ WorkRequestReply("c1", n).n = want
        /\ WorkRequestReply("c1", n).passwords = [k \in 1..want |-> records[ids[k]].pwd]
        /\ MarkChecking(records, ids, now) =
              [i \in DOMAIN records |->
                  IF i \in got THEN [records[i] EXCEPT !.status = CHECKING, !.updated_at = now]
                  ELSE records[i]]

\* C14: while the latch is unset a lease hands out the min(n, u) UNCHECK rows
\* of lowest id, in ascending id order, where u is the number of UNCHECK rows
\* and n is 100 times the processor count and at least 100 (100 for a count
\* of 0 or less and for 1, 800 for 8); these rows and no others become
\* CHECKING, and the reply counts them.
LeaseBatchExact ==
    /\ BatchSize(-1) = 100 /\ BatchSize(0) = 100 /\ BatchSize(1) = 100 /\ BatchSize(8) = 800
    /\ ~passwordFound =>
          \A n \in CpuCountsWide :
              BatchExact(n, Min2(IF n * 100 > 100 THEN n * 100 ELSE 100, Cardinality(Unchecked)))

\* a lease was cut at 100 rows: the 100 rows of lowest id are CHECKING since
\* the same instant and a row of higher id is left UNCHECK
BatchCutAtHundred ==
    /\ ~passwordFound
    /\ Cardinality({i \in DOMAIN records : records[i].status = CHECKING}) = 100
    /\ \E i \in Unchecked :
          \A j \in DOMAIN records :
              records[j].status = CHECKING => j < i /\ records[j].updated_at = now

(***************************************************************************)
(* The token check.                                                        *)
(***************************************************************************)
\* the header value is the secret, bare or after "Bearer "
Carries(v) == apiToken # "" /\ (v = <<apiToken>> \/ v = <<"Bearer ", apiToken>>)

StoreLatchMarkerRegistry == <<records, passwordFound, foundFile, backups, activeClients>>

\* C15: a POST is answered 401 when no secret is configured, 401 when a
\* secret is configured and no header presents a token, 403 when the headers
\* present tokens and none is the secret; a GET passes without a token; and
\* while no secret is configured no step changes the store, the latch, the
\* marker or the liveness registry.
RejectedPostChangesNothing ==
    /\ [](\A h \in Headers :
            /\ apiToken = "" => PreHandler("POST", h) = 401
            /\ apiToken # "" /\ h.authorization = <<>> /\ h.xApiToken = <<>>
                  => PreHandler("POST", h) = 401
            /\ apiToken # "" /\ (h.authorization # <<>> \/ h.xApiToken # <<>>)
                  /\ ~Carries(h.authorization) /\ ~Carries(h.xApiToken)
                  => PreHandler("POST", h) = 403
            /\ PreHandler("GET", h) = 200)
    /\ [][apiToken = "" => UNCHANGED StoreLatchMarkerRegistry]_vars

\* a secret is configured, rows are leased and the latch is set: a POST
\* without the secret is turned away in a state its handler would change
RejectedWhileWorkIsOut ==
    /\ apiToken # ""
    /\ passwordFound
    /\ \E i \in Rows : StatusOf(i) = CHECKING
    /\ PreHandler("POST", [authorization |-> <<>>, xApiToken |-> <<>>]) = 401
    /\ PreHandler("POST", [authorization |-> <<"bad">>, xApiToken |-> <<>>]) = 403
    /\ PreHandler("POST", [authorization |-> <<>>, xApiToken |-> <<"bad">>]) = 403

\* C16: a POST that presents the secret in the Authorization header or in the
\* x-api-token header passes the hook, whatever the other header holds.
SecretInEitherHeaderAuthorizes ==
    \A h \in Headers :
        Carries(h.authorization) \/ Carries(h.xApiToken) => PreHandler("POST", h) = 200

(***************************************************************************)
(* reset-found on a store that is not the sample store.                    *)
(***************************************************************************)
\* C17: on a store that is not the sample store an authorized reset-found is
\* answered 403 and changes nothing: the latch keeps its value, the marker is
\* neither copied nor removed, and no row changes.
ResetRefusedOnProduction ==
    /\ [](dbName # SampleDb =>
            /\ ResetFoundReply.code = 403
            /\ backups = {}
            /\ inflight["reset_copy"] = 0
            /\ inflight["reset_unlink"] = 0
            /\ inflight["reset_finish"] = 0)
    /\ [][dbName # SampleDb /\ ResetFound => UNCHANGED vars]_vars

\* the production store with the latch set, the marker written and rows in
\* each status: a reset would change all of these
ProductionHasSomethingToReset ==
    /\ dbName # SampleDb
    /\ apiToken # ""
    /\ passwordFound
    /\ foundFile = MaxStanzas
    /\ \E i, j \in Rows : StatusOf(i) = CHECKING /\ StatusOf(j) = CHECKED
    /\ NoInflight = inflight

(***************************************************************************)
(* reset-found on the sample store.                                        *)
(***************************************************************************)
\* the last step of a reset-found that answers success: the handler ran
\* through without a marker to remove, or it resumes after the unlink
ResetCompletes == dbName = SampleDb /\ (ResetFinish \/ (ResetFound /\ foundFile = 0))

\* C18, as stated: on the sample store a reset-found that completes leaves the
\* latch clear, the marker absent with the content it removed kept in a
\* backup, and every row UNCHECK, so that the next lease returns work.
ResetLeavesCleanSlate ==
    [][/\ dbName = SampleDb /\ ResetUnlink => foundFile \in backups
       /\ ResetCompletes =>
             /\ ~passwordFound'
             /\ foundFile' = 0
             /\ \A i \in Rows : StatusOf(i)' = UNCHECK
             /\ \A n \in CpuCounts : Len(LeaseIds(n))' = NumRows]_vars

(***************************************************************************)
(* The failure report and the rows it does not list.                       *)
(***************************************************************************)
\* C19: an accepted failure report makes CHECKED every row whose password is
\* in its list, whatever the status of the row; a password that matches no
\* row changes nothing; every row that is not listed keeps its status and its
\* updated_at; and the report does not change the latch.
FailureReportFrame ==
    /\ [](\A b \in FailureBodies :
            ValidResult(b) =>
                \A i \in Rows :
                    /\ Listed(i, b) => FailurePath(records, b, now)[i].status = CHECKED
                    /\ ~Listed(i, b) => FailurePath(records, b, now)[i] = records[i])
    /\ [][passwordFound' # passwordFound => ~FailureReportStep]_vars

\* a row that was never leased is CHECKED by a report made at the end of the
\* clock, next to a row that is still out on the lease of time 0
ReportedBesideLease ==
    /\ ~passwordFound
    /\ now = MaxNow
    /\ \E i, j \in Rows :
          /\ StatusOf(i) = CHECKED /\ records[i].updated_at = now /\ leased[i] = 0
          /\ StatusOf(j) = CHECKING /\ records[j].updated_at = 0

(***************************************************************************)
(* The rows of a batch after its report is acknowledged.                   *)
(***************************************************************************)
SuccessBodies == {b \in ResultBodies : ValidResult(b) /\ IsSuccessPath(b)}

\* C20, as stated: when a report for a leased batch is acknowledged, on the
\* failure path or on the success path, the rows of the batch are CHECKED and
\* none of them is still CHECKING.
AckedBatchIsChecked ==
    [][/\ \A b \in FailureBodies :
             FailureReport(b) /\ WorkResult(b) =>
                 \A i \in Rows : Listed(i, b) /\ leased[i] > 0 => StatusOf(i)' = CHECKED
       /\ ResultAck =>
             \A b \in SuccessBodies :
                 \A i \in Rows : Listed(i, b) /\ leased[i] > 0 => StatusOf(i)' = CHECKED]_vars

(***************************************************************************)
(* GET /work/stats with the handlers that write what it reads, on the      *)
(* sample store (summary never served again) and on a store of BigRows     *)
(* rows (summary served again for two minutes).                            *)
(***************************************************************************)
StatsClients == {"c1", "c2"}

\* the instants at which requests arrive: within the cache time of a
\* summary, at its end, and an hour later
StatsTimes == {0, 60, 120, MaxNow - 60, MaxNow}

InitStats ==
    /\ dbName \in {SampleDb, BigDb}
    /\ apiToken = "tok"
    /\ records = [i \in Rows |-> [pwd |-> PwdList[i], status |-> UNCHECK, updated_at |-> 0]]
    /\ foundFile \in {0, 1}
    /\ passwordFound = StartupLatch(foundFile)
    /\ backups = {}
    /\ activeClients = [c \in StatsClients |-> -1]
    /\ now = 0
    /\ inflight = NoInflight
    /\ leased = [i \in Rows |-> 0]
    /\ ackedSinceReset = FALSE
    /\ resetOverlap = FALSE
    /\ cacheStats = <<>>
    /\ isUpdatingStats = FALSE
    /\ client = NewClient
    /\ threads = <<>>

\* a lease request that the listed rows can serve: on BigDb a lease reaches
\* the rows the table does not list unless the latch refuses it
LeaseWithinTable == TailRows(dbName) = 0 \/ passwordFound

\* the failure reports that list the first row
StatsBodies == {b \in FailureBodies : ValidResult(b) /\ b.passwords = <<PwdList[1]>>}

NextStats ==
    \/ Stats
    \/ StatsFail
    \/ \E c \in StatsClients : LeaseWithinTable /\ WorkRequest(c, 1)
    \/ \E b \in StatsBodies : WorkResult(b)
    \/ \E t \in StatsTimes : t > now /\ Tick(t - now)
    \/ Restart

SpecStats == InitStats /\ [][NextStats]_vars

\* GET /work/stats among the requests that set and clear the latch: the
\* found-confirm with its append, and reset-found with its copy and unlink
NextLatchStats ==
    \/ Stats
    \/ WorkFound("aa", "c1")
    \/ FoundAppend
    \/ FoundAck
    \/ ResetFound
    \/ ResetCopy
    \/ ResetUnlink
    \/ ResetFinish
    \/ \E t \in StatsTimes : t > now /\ Tick(t - now)

SpecLatchStats == InitStats /\ [][NextLatchStats]_vars

\* the counts of a summary
Counts(summary) == <<summary.uncheck, summary.checking, summary.checked,
                     summary.timeout, summary.total>>

\* the age of the cached summary, in ms
CacheAge == NowMs - cacheStats[1].updated_at

\* the cache times the specification gives, in minutes
TtlMinutes(T) == IF T <= 10000 THEN 0 ELSE IF T \div 1000000 < 60 THEN T \div 1000000 ELSE 60

TtlAsSpecified ==
    /\ \A T \in {0, 1, 10000, 10001, 999999, 1000000, 1999999, 2500000, 59999999,
                  60000000, 120000000, NumRows, BigRows} :
            calculateCacheTime(T) = TtlMinutes(T) * 60000
    /\ calculateCacheTime(999999) = 0
    /\ calculateCacheTime(2500000) = 2 * 60000
    /\ calculateCacheTime(120000000) = 60 * 60000

\* a recomputation is due: no summary, a cache time of 0, or a summary older
\* than its cache time
DueWhenOlder ==
    \/ cacheStats = <<>>
    \/ TtlMinutes(cacheStats[1].total) = 0
    \/ CacheAge > TtlMinutes(cacheStats[1].total) * 60000

\* the same, with a summary as old as its cache time counted as due
DueWhenNotYounger ==
    \/ cacheStats = <<>>
    \/ TtlMinutes(cacheStats[1].total) = 0
    \/ CacheAge >= TtlMinutes(cacheStats[1].total) * 60000

\* C21, as stated: the cache time is as specified, and a read recomputes the
\* counts when the cached summary is absent, its cache time is 0 or it is
\* older than its cache time, and returns the cached counts otherwise.
CacheRuleOlderThan ==
    /\ [](TtlAsSpecified /\ (~isUpdatingStats =>
             Counts(StatsReply) = IF DueWhenOlder THEN Counts(StatsSummary)
                                  ELSE Counts(cacheStats[1])))
    /\ [][cacheStats' # cacheStats /\ cacheStats' # <<>> => DueWhenOlder]_vars

\* C21: the cache time is 0 for a total of 10,000 or less and otherwise
\* min(60, floor(total / 1,000,000)) minutes; a read recomputes the counts
\* when the cached summary is absent, its cache time is 0 or its age is its
\* cache time or more, and returns the cached counts otherwise.
CacheRule ==
    /\ [](TtlAsSpecified /\ (~isUpdatingStats =>
             Counts(StatsReply) = IF DueWhenNotYounger THEN Counts(StatsSummary)
                                  ELSE Counts(cacheStats[1])))
    /\ [][cacheStats' # cacheStats /\ cacheStats' # <<>> => DueWhenNotYounger]_vars

\* on the large store a read is answered from a summary one minute old whose
\* counts the store has left behind
StaleCountsServed ==
    /\ dbName = BigDb
    /\ CacheHit
    /\ CacheAge = 60000
    /\ calculateCacheTime(cacheStats[1].total) = 120000
    /\ Counts(StatsReply) # Counts(StatsSummary)

\* the buckets of a summary add up to its total, which is the number of rows
SumsToRows(summary) ==
    /\ summary.uncheck + summary.checking + summary.checked = summary.total
    /\ summary.total = Cardinality(DOMAIN records) + TailRows(dbName)

\* C22: in every summary, the one a read would compute now and the cached
\* one, uncheck + checking + checked equals total, and total is the number of
\* rows of the store (which no operation changes).
BucketsSumToTotal ==
    /\ SumsToRows(StatsSummary)
    /\ cacheStats # <<>> => SumsToRows(cacheStats[1])

\* a cached summary of the sample store with rows out on lease and rows
\* reported, and a store that has moved on since
MixedSummaryCached ==
    /\ cacheStats # <<>>
    /\ cacheStats[1].checking > 0
    /\ cacheStats[1].checked > 0
    /\ cacheStats[1].total = NumRows
    /\ Counts(StatsSummary) # Counts(cacheStats[1])

\* C23, as stated: every read, also one answered from the cached summary,
\* reports the uptime of its own time and the liveness list of its own time.
ReadReportsOwnUptimeAndLiveness ==
    ~isUpdatingStats =>
        /\ StatsReply.uptime = (NowMs - startupTime) \div 1000
        /\ StatsReply.activeClients = ClientsInfo.count
        /\ StatsReply.activeClientsList = ClientsInfo.clients

\* C24: no recomputation is under way when a read arrives, whatever the
\* order of the reads and also after a recomputation that failed, so at most
\* one is ever in flight; and a read that found the flag set would start
\* none and answer with the previous summary, or with the 'updating' error
\* when there is none.
OneRecomputation ==
    /\ ~isUpdatingStats
    /\ StatsReplyIf(TRUE) \in
          {UpdatingError} \cup {cacheStats[k] : k \in DOMAIN cacheStats}
          \cup {[cacheStats[k] EXCEPT !.activeClients = ClientsInfo.count,
                                      !.activeClientsList = ClientsInfo.clients] :
                    k \in DOMAIN cacheStats}
    /\ StatsReplyIf(TRUE) = UpdatingError <=> cacheStats = <<>>

\* on the large store a summary was computed and has outlived its cache
\* time: the next read recomputes
RecomputationDueAgain ==
    /\ dbName = BigDb
    /\ cacheStats # <<>>
    /\ CacheAge >= calculateCacheTime(cacheStats[1].total)
    /\ cacheStats[1].updated_at > 0
    /\ ~isUpdatingStats

(***************************************************************************)
(* The liveness registry.                                                  *)
(***************************************************************************)
\* the workers last seen within the past hour
SeenWithinHour == {c \in DOMAIN activeClients :
                      activeClients[c] >= 0 /\ NowMs - activeClients[c] <= 3600000}

\* C25: an accepted lease request sets the last-seen time of its worker to
\* now, with the latch set or not; a read that is answered leaves no entry
\* older than one hour in the registry and keeps the others, and it reports
\* exactly the workers last seen within the past hour, the most recent first.
LivenessWindow ==
    /\ [](/\ \A c \in DOMAIN activeClients :
                ActiveClientsAfterStats[c] = IF c \in SeenWithinHour THEN activeClients[c] ELSE -1
          /\ ~isUpdatingStats =>
                /\ StatsReply.activeClients = Cardinality(SeenWithinHour)
                /\ Len(StatsReply.activeClientsList) = Cardinality(SeenWithinHour)
                /\ \A k \in DOMAIN StatsReply.activeClientsList :
                      LET e == StatsReply.activeClientsList[k]
                      IN  /\ e.clientId \in SeenWithinHour
                          /\ e.lastActiveTime = activeClients[e.clientId]
                          /\ \A j \in DOMAIN StatsReply.activeClientsList :
                                j < k => /\ StatsReply.activeClientsList[j].lastActiveTime
                                              >= e.lastActiveTime
                                         /\ StatsReply.activeClientsList[j].clientId
                                              # e.clientId)
    /\ [][\A c \in DOMAIN activeClients :
             (\E n \in {1} : WorkRequest(c, n)) => activeClients'[c] = NowMs]_vars

\* with the latch set, one worker asked for work at 60 s and the other an
\* hour later; a read at that time computed a summary that lists both
TwoWorkersListed ==
    /\ passwordFound
    /\ now = MaxNow
    /\ activeClients["c1"] = 60000
    /\ activeClients["c2"] = NowMs
    /\ cacheStats # <<>>
    /\ cacheStats[1].updated_at = NowMs
    /\ cacheStats[1].activeClients = 2

(***************************************************************************)
(* The worker (lucky01.js): the worker threads, processPasswords,          *)
(* reportFoundPassword and PasswordClient.run.                             *)
(***************************************************************************)
MaxWorkers == 2        \* MAX_WORKERS
LeaseLen == 4          \* passwords of a lease reply with work
MaxClientNow == 60     \* the worker's clock stops at this many seconds

WaitSeconds == 10      \* run() waits this long before it asks again
RetrySeconds == 5      \* reportFoundPassword waits this long between attempts
maxRetries == 5        \* attempts of one call of reportFoundPassword
IntervalSeconds == 10  \* period of the fallback interval
MaxReportCount == 3    \* the interval is cleared at this reportCount

LeasedPasswords == SubSeq(PwdList, 1, LeaseLen)

LeaseReplies ==
    {NoReply, ErrorBody, EmptyLease, LatchReply}
        \cup {[ErrorBody EXCEPT !.success = TRUE, !.passwords = LeasedPasswords,
                                !.encrypt = e] : e \in BOOLEAN}

\* a worker that gives up on every refusal: with it an empty lease ends
\* the worker, and LeaseStepStopsOnLatchOnly fails
OnWorkRequestGiveUp(workRequest) ==
    IF ~workRequest.received THEN "wait"
    ELSE IF ~workRequest.success THEN "stop"
    ELSE IF ~workRequest.encrypt THEN "wait" ELSE "process"

\* what run() does with the value requestWork returned
OnWorkRequest(workRequest) ==
    IF ~workRequest.received \/ ~workRequest.success
    THEN IF workRequest.received /\ workRequest.passwordFound THEN "stop" ELSE "wait"
    ELSE IF ~workRequest.encrypt THEN "wait" ELSE "process"

\* a slice length rounded down: with it the tail of a list that MAX_WORKERS
\* does not divide goes to no thread, and ChunksPartitionTheLease fails
PasswordsPerWorkerFloor(passwords) == Len(passwords) \div MaxWorkers

\* processPasswords: the slices handed to the worker threads
PasswordsPerWorker(passwords) == (Len(passwords) + MaxWorkers - 1) \div MaxWorkers

WorkerPasswords(passwords, i) ==
    SubSeq(passwords, i * PasswordsPerWorker(passwords) + 1,
           Min2((i + 1) * PasswordsPerWorker(passwords), Len(passwords)))

WorkerCount(passwords) ==
    Cardinality({i \in 0..(MaxWorkers - 1) : Len(WorkerPasswords(passwords, i)) > 0})

createWorker(workerPasswords) ==
    [passwords |-> workerPasswords,
     checkedCount |-> 0,     \* checkedCount of the thread
     raised |-> "none",      \* history: where the last trial raised an exception
     posted |-> 0,           \* messages the thread has posted
     rejected |-> FALSE,     \* the promise was rejected: 'error', or an exit
                             \*   with a code other than 0, before any message
     success |-> FALSE,      \* the message's success
     password |-> None]      \* the message's password

\* the promise of createWorker is settled: resolved by the first message, or
\* rejected
Settled(t) == t.posted > 0 \/ t.rejected

\* the first fulfilled result that reports success, as processPasswords scans
FirstSuccess(results) ==
    LET hits == {i \in DOMAIN results : results[i].posted > 0 /\ results[i].success}
    IN IF hits = {} THEN 0 ELSE CHOOSE i \in hits : \A j \in hits : i <= j

RemoveAt(s, k) == SubSeq(s, 1, k - 1) \o SubSeq(s, k + 1, Len(s))

\* every variable of the server but its clock
serverVars ==
    <<dbName, apiToken, records, passwordFound, foundFile, backups,
      activeClients, inflight, leased, ackedSinceReset, resetOverlap,
      cacheStats, isUpdatingStats>>

\* stop()
stop(c) == [c EXCEPT !.running = FALSE]

\* the 10 s timer of run(), after which the loop condition is tested again
Wait(c) == [c EXCEPT !.at = "wait", !.wake = now + WaitSeconds]

\* the loop condition of run(): ask for work, or leave the loop
RunLoop ==
    /\ client.at = "while"
    /\ client' = [client EXCEPT !.at = IF client.running THEN "requestWork" ELSE "returned",
                                !.unanswered = FALSE]
    /\ UNCHANGED <<threads, now, serverVars>>

\* requestWork returns
AfterRequestWork(workRequest) ==
    LET c == [client EXCEPT !.workRequest = workRequest]
        step == OnWorkRequest(workRequest)
    IN IF step = "stop"
       THEN /\ client' = [stop(c) EXCEPT !.at = "returned"]
            /\ UNCHANGED threads
       ELSE IF step = "wait"
       THEN /\ client' = Wait(c)
            /\ UNCHANGED threads
       ELSE /\ client' = [c EXCEPT !.at = "process", !.passwords = workRequest.passwords]
            /\ threads' = [i \in 1..WorkerCount(workRequest.passwords) |->
                             createWorker(WorkerPasswords(workRequest.passwords, i - 1))]

WorkReply(workRequest) ==
    /\ client.at = "requestWork"
    /\ AfterRequestWork(workRequest)
    /\ UNCHANGED <<now, serverVars>>

\* the 10 s timer fires
WaitOver ==
    /\ client.at = "wait"
    /\ now >= client.wake
    /\ client' = [client EXCEPT !.at = "while", !.wake = -1, !.workRequest = NoReply]
    /\ UNCHANGED <<threads, now, serverVars>>

\* where a trial may raise: in deriveKeyFromPassword, in the AES decryption
\* of decryptMasterKey (a ciphertext that is not a multiple of 16 bytes makes
\* cipher.final throw) or of decryptPrivateKey, or in validatePrivateKey
Faults == {"none", "derive", "master", "privkey", "validate"}

\* the if of the loop body holds: an exception of deriveKeyFromPassword goes
\* to the catch of the loop, decryptMasterKey and decryptPrivateKey catch
\* theirs and return null, validatePrivateKey catches its own and returns false
TrialMatches(password, fault, encrypt) ==
    IF fault = "derive" THEN FALSE
    ELSE LET masterKey == IF fault = "master" THEN None ELSE "masterKey"
             privateKey == IF masterKey = None \/ fault = "privkey" THEN None
                           ELSE "privateKey"
         IN privateKey # None /\ fault # "validate" /\ password = encrypt

\* a loop body without the try and the catches: an exception ends the
\* thread, and TrialExceptionIsNonMatch fails
AfterTrialUncaught(t, fault, encrypt) ==
    IF fault # "none" THEN [t EXCEPT !.raised = fault, !.rejected = TRUE]
    ELSE IF t.passwords[t.checkedCount + 1] = encrypt
    THEN [t EXCEPT !.raised = fault, !.posted = @ + 1, !.success = TRUE,
                   !.password = t.passwords[t.checkedCount + 1]]
    ELSE [t EXCEPT !.raised = fault, !.checkedCount = @ + 1,
                   !.posted = IF t.checkedCount + 1 = Len(t.passwords) THEN @ + 1 ELSE @]

\* one iteration of the loop of the thread: a match is posted at once and
\* ends the loop, a miss is counted, and after the last miss the thread
\* posts its failure
AfterTrial(t, fault, encrypt) ==
    IF TrialMatches(t.passwords[t.checkedCount + 1], fault, encrypt)
    THEN [t EXCEPT !.raised = fault, !.posted = @ + 1, !.success = TRUE,
                   !.password = t.passwords[t.checkedCount + 1]]
    ELSE [t EXCEPT !.raised = fault, !.checkedCount = @ + 1,
                   !.posted = IF t.checkedCount + 1 = Len(t.passwords) THEN @ + 1 ELSE @]

\* a thread's trial of its next password
ThreadTrial(i, fault) ==
    /\ i \in DOMAIN threads
    /\ ~Settled(threads[i])
    /\ threads' = [threads EXCEPT ![i] = AfterTrial(threads[i], fault, client.encrypt)]
    /\ UNCHANGED <<client, now, serverVars>>

\* a thread ends with 'error' or with an exit code other than 0 before it
\* has posted: createWorker rejects its promise
ThreadCrash(i) ==
    /\ i \in DOMAIN threads
    /\ ~Settled(threads[i])
    /\ threads' = [threads EXCEPT ![i].rejected = TRUE]
    /\ UNCHANGED <<client, now, serverVars>>

\* Promise.allSettled resolves, and run() goes on with the result
AllSettled ==
    /\ client.at = "process"
    /\ \A i \in DOMAIN threads : Settled(threads[i])
    /\ LET hit == FirstSuccess(threads)
       IN client' = IF hit # 0
                    THEN [client EXCEPT !.foundPassword = threads[hit].password,
                                        !.at = "save"]
                    ELSE [client EXCEPT !.at = "submitFailure",
                                        !.checkedPasswords = client.passwords]
    /\ threads' = <<>>
    /\ UNCHANGED <<now, serverVars>>

\* saveFoundPassword resolves and the success report is sent
Saved ==
    /\ client.at = "save"
    /\ client' = [client EXCEPT !.at = "submit", !.submitted = client.passwords]
    /\ UNCHANGED <<threads, now, serverVars>>

\* saveFoundPassword rejects: the catch of run() waits 10 s
SaveFails ==
    /\ client.at = "save"
    /\ client' = Wait(client)
    /\ UNCHANGED <<threads, now, serverVars>>

\* a call of reportFoundPassword, its first request sent
NewReport(by) == [by |-> by, retryCount |-> 0, wake |-> -1]

\* submitResult(batchId, true, ...) returns
SubmitReply(received, shouldStop) ==
    /\ client.at = "submit"
    /\ client' = IF received /\ shouldStop
                 THEN [stop(client) EXCEPT !.at = "returned"]
                 ELSE [client EXCEPT !.at = "report",
                                     !.reports = Append(client.reports, NewReport(0)),
                                     !.foundSent = TRUE,
                                     !.unanswered = ~received]
    /\ UNCHANGED <<threads, now, serverVars>>

\* submitResult(batchId, false, ...) returns, a body or null: run() reads
\* neither and goes to the loop condition
SubmitFailureReply(received) ==
    /\ client.at = "submitFailure"
    /\ client' = [client EXCEPT !.at = "while", !.unanswered = ~received]
    /\ UNCHANGED <<threads, now, serverVars>>

\* reportFoundPassword returns to the one that awaits it: run(), which stops
\* or sets the interval up and falls through to the loop condition, or a
\* callback of interval by, which counts and may clear the interval and stop
ReportReturns(c, by, value) ==
    IF by = 0
    THEN IF value
         THEN [stop(c) EXCEPT !.at = "returned"]
         ELSE [c EXCEPT !.at = "while",
                        !.intervals = Append(c.intervals,
                            [next |-> now + IntervalSeconds, reportCount |-> 0,
                             started |-> 0])]
    ELSE LET reportCount == c.intervals[by].reportCount + 1
         IN IF value \/ reportCount >= MaxReportCount
            THEN [stop(c) EXCEPT !.intervals[by].reportCount = reportCount,
                                 !.intervals[by].next = -1]
            ELSE [c EXCEPT !.intervals[by].reportCount = reportCount]

\* a found-confirm request of call k returns, acknowledged or not
FoundReply(k, acknowledged) ==
    /\ k \in DOMAIN client.reports
    /\ client.reports[k].wake = -1
    /\ LET r == client.reports[k]
           c == IF r.by = 0 THEN [client EXCEPT !.unanswered = FALSE] ELSE client
           gone == [c EXCEPT !.reports = RemoveAt(c.reports, k)]
       IN client' =
            IF acknowledged
            THEN ReportReturns(gone, r.by, TRUE)
            ELSE IF r.retryCount + 1 < maxRetries
            THEN [c EXCEPT !.reports[k].retryCount = r.retryCount + 1,
                           !.reports[k].wake = now + RetrySeconds]
            ELSE ReportReturns(gone, r.by, FALSE)
    /\ UNCHANGED <<threads, now, serverVars>>

\* the 5 s timer of call k fires and the next request is sent
FoundRetry(k) ==
    /\ k \in DOMAIN client.reports
    /\ client.reports[k].wake # -1
    /\ now >= client.reports[k].wake
    /\ client' = [client EXCEPT !.reports[k].wake = -1,
                                !.foundSent = TRUE]
    /\ UNCHANGED <<threads, now, serverVars>>

\* interval n fires: its callback calls reportFoundPassword
IntervalFire(n) ==
    /\ n \in DOMAIN client.intervals
    /\ client.intervals[n].next # -1
    /\ now >= client.intervals[n].next
    /\ client' = [client EXCEPT !.intervals[n].next = client.intervals[n].next + IntervalSeconds,
                                !.intervals[n].started = client.intervals[n].started + 1,
                                !.reports = Append(client.reports, NewReport(n)),
                                !.foundSent = TRUE]
    /\ UNCHANGED <<threads, now, serverVars>>

\* the timers that are set, by the time they fire
Timers ==
    ((IF client.at = "wait" THEN {client.wake} ELSE {})
        \cup {client.reports[k].wake : k \in DOMAIN client.reports}
        \cup {client.intervals[n].next : n \in DOMAIN client.intervals}) \ {-1}

\* run() stands at a timer, at the worker threads, or has returned
RunIdle == client.at \in {"wait", "process", "report", "returned"}

\* time passes in steps of 5 s: no timer is overslept, and a request is
\* answered, and a file written, in less than one step
ClientTick ==
    /\ now + RetrySeconds <= MaxClientNow
    /\ RunIdle
    /\ \A k \in DOMAIN client.reports : client.reports[k].wake # -1
    /\ \A t \in Timers : t > now
    /\ now' = now + RetrySeconds
    /\ UNCHANGED <<client, threads, serverVars>>

InitClient ==
    /\ dbName = SampleDb
    /\ apiToken = "tok"
    /\ records = [i \in Rows |-> [pwd |-> PwdList[i], status |-> UNCHECK, updated_at |-> 0]]
    /\ passwordFound = FALSE
    /\ foundFile = 0
    /\ backups = {}
    /\ activeClients = [c \in ClientIds |-> -1]
    /\ now = 0
    /\ inflight = NoInflight
    /\ leased = [i \in Rows |-> 0]
    /\ ackedSinceReset = FALSE
    /\ resetOverlap = FALSE
    /\ cacheStats = <<>>
    /\ isUpdatingStats = FALSE
    /\ \E p \in {None, LeasedPasswords[1], LeasedPasswords[LeaseLen]} :
            client = [NewClient EXCEPT !.encrypt = p]
    /\ threads = <<>>

NextClient ==
    \/ RunLoop
    \/ \E workRequest \in LeaseReplies : WorkReply(workRequest)
    \/ WaitOver
    \/ \E i \in 1..MaxWorkers : ThreadTrial(i, "none")
    \/ AllSettled
    \/ Saved
    \/ SaveFails
    \/ \E received \in BOOLEAN, shouldStop \in BOOLEAN :
            (received \/ ~shouldStop) /\ SubmitReply(received, shouldStop)
    \/ \E received \in BOOLEAN : SubmitFailureReply(received)
    \/ \E k \in 1..Len(client.reports), acknowledged \in BOOLEAN : FoundReply(k, acknowledged)
    \/ \E k \in 1..Len(client.reports) : FoundRetry(k)
    \/ \E n \in 1..Len(client.intervals) : IntervalFire(n)
    \/ ClientTick

SpecClient == InitClient /\ [][NextClient]_vars

(***************************************************************************)
(* The worker threads alone: run() goes from lease to report with leases   *)
(* of every length, trials that raise exceptions and threads that end      *)
(* before they have posted; every request is answered at once.             *)
(***************************************************************************)
WorkOf(n) ==
    [ErrorBody EXCEPT !.success = TRUE, !.passwords = SubSeq(PwdList, 1, n),
                      !.encrypt = TRUE]

NextThreads ==
    \/ RunLoop
    \/ \E n \in 1..LeaseLen : WorkReply(WorkOf(n))
    \/ \E i \in 1..MaxWorkers, fault \in Faults : ThreadTrial(i, fault)
    \/ \E i \in 1..MaxWorkers : ThreadCrash(i)
    \/ AllSettled
    \/ Saved
    \/ SubmitReply(TRUE, TRUE)
    \/ \E received \in BOOLEAN : SubmitFailureReply(received)

SpecThreads == InitClient /\ [][NextThreads]_vars

(***************************************************************************)
(* The worker against the coordinator: the lease request of run() goes     *)
(* through the preHandler hook with the headers makeRequest sends, and a   *)
(* request the hook lets through reaches the handler.  The coordinator has *)
(* its secret configured, every row is UNCHECK, the latch is unset, and no *)
(* password opens the wallet.  The timer task of the coordinator runs at   *)
(* any time.  A worker that is never given a lease has no thread to run    *)
(* and no report to send.                                                  *)
(***************************************************************************)
\* the headers of makeRequest: Content-Type, and no token
makeRequestHeaders == [authorization |-> <<>>, xApiToken |-> <<>>]

\* the body of POST /work/request as requestWork returns it
AsWorkRequest(reply) ==
    [received |-> TRUE, success |-> reply.success,
     passwordFound |-> reply.passwordFound, message |-> reply.message,
     passwords |-> reply.passwords, encrypt |-> reply.success]

\* requestWork: the hook answers 401 or 403 with { error }, or the handler
\* runs and answers
RequestWork ==
    /\ client.at = "requestWork"
    /\ IF PreHandler("POST", makeRequestHeaders) = 200
       THEN /\ WorkRequestHandler("c1", 2)
            /\ AfterRequestWork(AsWorkRequest(WorkRequestReply("c1", 2)))
       ELSE /\ AfterRequestWork(ErrorBody)
            /\ UNCHANGED <<now, serverVars>>

\* no stored time is in use: updated_at is read for CHECKING rows only (the
\* reclaim and the timeout count), no worker is on record, nothing is cached
EpochFree ==
    /\ \A i \in Rows : records[i].status # CHECKING
    /\ \A c \in DOMAIN activeClients : activeClients[c] = -1
    /\ cacheStats = <<>>

\* the clock runs while run() waits for its timer.  The clock is measured
\* from a moving origin: when the timer falls due after MaxNow and no stored
\* time is in use, the origin moves to the instant the timer is due.
WaitTick ==
    /\ client.at = "wait"
    /\ now < client.wake
    /\ IF client.wake <= MaxNow
       THEN Tick(client.wake - now)
       ELSE /\ EpochFree
            /\ now' = 0
            /\ client' = [client EXCEPT !.wake = 0]
            /\ UNCHANGED <<threads, serverVars>>

InitWorker ==
    /\ InitClient
    /\ client.encrypt = None

NextWorker ==
    \/ RunLoop
    \/ RequestWork
    \/ WaitTick
    \/ WaitOver
    \/ Sweeper

SpecWorker == InitWorker /\ [][NextWorker]_vars

\* the worker keeps running and the timer task keeps ticking
FairWorker == SpecWorker /\ WF_vars(NextWorker)

(***************************************************************************)
(* C26.  The lease step of run().                                          *)
(***************************************************************************)
LatchSignal(r) == r.received /\ r.passwordFound

LeaseStepAsSpecified ==
    /\ client.at = "requestWork" /\ client'.at # "requestWork" =>
            IF LatchSignal(client'.workRequest)
            THEN client'.at = "returned" /\ ~client'.running
            ELSE /\ client'.at # "returned"
                 /\ client'.running = client.running
                 /\ ~client'.workRequest.success =>
                        client'.at = "wait" /\ client'.wake = now + 10
    /\ client.at = "wait" /\ client'.at # "wait" =>
            now >= client.wake /\ client'.at = "while"
    /\ client.at = "while" /\ client.running /\ client'.at # "while" =>
            client'.at = "requestWork"

\* C26: run() leaves the lease step stopped only on a reply that carries
\* passwordFound; on no reply, an error body or an empty lease it waits 10 s,
\* comes back to the loop condition and, still running, asks again
LeaseStepStopsOnLatchOnly == [][LeaseStepAsSpecified]_vars

\* the worker waits once more after an empty lease, 10 s or more after the
\* first request, having found nothing
WaitsAgainAfterEmptyLease ==
    /\ client.at = "wait"
    /\ client.workRequest = EmptyLease
    /\ client.wake = now + 10
    /\ now >= 10
    /\ client.running
    /\ client.foundPassword = None

(***************************************************************************)
(* C27.  What a worker has sent by the time it stops after a match.        *)
(***************************************************************************)
\* C27: a worker that found a match and has stopped has sent the success
\* report with every leased password and at least one found-confirm request
ConfirmFoundBeforeStop ==
    client.foundPassword # None /\ ~client.running =>
        client.submitted = client.passwords /\ client.foundSent

(***************************************************************************)
(* C28.  The fallback interval.                                            *)
(***************************************************************************)
\* C28: an interval starts at most 3 calls of reportFoundPassword
AtMostThreeRetries ==
    \A n \in DOMAIN client.intervals : client.intervals[n].started <= 3

(***************************************************************************)
(* C29.  Lease requests after a match.                                     *)
(***************************************************************************)
\* C29: a worker that found a match sends no lease request any more
NoLeaseAfterMatch ==
    [][client.foundPassword # None => ~(client.at = "while" /\ client'.at = "requestWork")]_vars

(***************************************************************************)
(* C30.  The peers of the thread that posts a match.                       *)
(***************************************************************************)
Published == \E j \in DOMAIN threads : threads[j].posted > 0 /\ threads[j].success

\* C30: once a thread has posted a match no thread starts a trial
PeersCancelled ==
    [][Published /\ threads' # <<>> =>
            \A i \in DOMAIN threads : threads'[i].checkedCount = threads[i].checkedCount]_vars

(***************************************************************************)
(* C31.  A request of the worker that got no response.                     *)
(***************************************************************************)
Retried == client'.at = "wait" /\ client'.wake = now + 10

NetworkErrorStep ==
    /\ client.at = "requestWork" /\ client'.at # "requestWork"
            /\ ~client'.workRequest.received => Retried
    /\ client.at = "submitFailure" /\ client'.at # "submitFailure"
            /\ client'.unanswered => Retried
    /\ client.at = "submit" /\ client'.at # "submit"
            /\ client'.unanswered => Retried

\* C31: a lease request, a failure report or a success report that got no
\* response makes run() wait 10 s, to send that request again
NetworkErrorRetried == [][NetworkErrorStep]_vars

(***************************************************************************)
(* insertToDb (lucky01.js): the generator fills the table the server       *)
(* serves.                                                                 *)
(***************************************************************************)
MaxInsert == 2         \* passwords of one call of insertToDb

\* the strings the generator passes, some with blanks around them
InsertPwds == {"aa", " aa ", "zz", "zz ", "  "}

\* String.prototype.trim on these strings
trim(password) ==
    CASE password = " aa " -> "aa"
      [] password = "zz " -> "zz"
      [] password = "  " -> ""
      [] OTHER -> password

InsertLists == UNION {[1..n -> InsertPwds] : n \in 0..MaxInsert}

HasPwd(recs, pwd) == \E i \in DOMAIN recs : recs[i].pwd = pwd

NewRow(pwd, t) == [pwd |-> pwd, status |-> UNCHECK, updated_at |-> t]

\* INSERT OR REPLACE: with it a duplicate puts a checked row back to
\* UNCHECK, and InsertIdempotent fails
InsertOrReplace(recs, pwd, t) ==
    IF HasPwd(recs, pwd)
    THEN [i \in DOMAIN recs |-> IF recs[i].pwd = pwd THEN NewRow(pwd, t) ELSE recs[i]]
    ELSE Append(recs, NewRow(pwd, t))

\* INSERT OR IGNORE INTO records (pwd, status) VALUES (?, 0): pwd is UNIQUE,
\* id the next one, updated_at the current time
InsertOrIgnore(recs, pwd, t) ==
    IF HasPwd(recs, pwd) THEN recs ELSE Append(recs, NewRow(pwd, t))

\* insertMany: the transaction over one batch, counting result.changes > 0
RECURSIVE insertMany(_, _, _)
insertMany(recs, batch, t) ==
    IF batch = <<>> THEN [records |-> recs, insertedCount |-> 0]
    ELSE LET password == Head(batch)
             after == IF trim(password) # ""
                      THEN InsertOrIgnore(recs, trim(password), t)
                      ELSE recs
             rest == insertMany(after, Tail(batch), t)
         IN [records |-> rest.records,
             insertedCount |-> rest.insertedCount + (IF after # recs THEN 1 ELSE 0)]

\* insertToDb: the table it leaves and the count it returns; a list of up to
\* BATCH_SIZE passwords is one batch
insertToDb(recs, passwords, t) ==
    IF Len(passwords) = 0 THEN [records |-> recs, totalInserted |-> 0]
    ELSE [records |-> insertMany(recs, passwords, t).records,
          totalInserted |-> insertMany(recs, passwords, t).insertedCount]

InsertToDb(passwords) ==
    /\ records' = insertToDb(records, passwords, now).records
    /\ UNCHANGED <<client, threads, dbName, apiToken, cacheStats, isUpdatingStats,
                   passwordFound, foundFile, backups, activeClients, now,
                   inflight, leased, ackedSinceReset, resetOverlap>>

NextInsert ==
    \/ \E passwords \in InsertLists : InsertToDb(passwords)
    \/ \E c \in ClientIds : WorkRequest(c, 2)
    \/ \E b \in FailureBodies : WorkResult(b)
    \/ Ticks

SpecInsert == Init /\ [][NextInsert]_vars

(***************************************************************************)
(* C32.  Inserting a list twice.                                           *)
(***************************************************************************)
NoTwoSame(recs) == \A i, j \in DOMAIN recs : recs[i].pwd = recs[j].pwd => i = j

InsertedOnce(P) == insertToDb(records, P, now)
InsertedTwice(P) == insertToDb(InsertedOnce(P).records, P, now + 1)

\* C32: inserting a list a second time, later, leaves the table of the first
\* insert and reports 0; an insert leaves every row the table had as it was,
\* its new rows are UNCHECK, and no two rows hold the same password
InsertIdempotent ==
    /\ NoTwoSame(records)
    /\ \A P \in InsertLists :
        /\ InsertedTwice(P).records = InsertedOnce(P).records
        /\ InsertedTwice(P).totalInserted = 0
        /\ \A i \in DOMAIN records : InsertedOnce(P).records[i] = records[i]
        /\ \A i \in DOMAIN InsertedOnce(P).records \ DOMAIN records :
                InsertedOnce(P).records[i].status = UNCHECK
        /\ NoTwoSame(InsertedOnce(P).records)

\* the generator has added a row, and one of its strings is, trimmed, the
\* password of a row on lease and another that of a row checked
DuplicateOfCheckedRow ==
    /\ Len(records) > NumRows
    /\ \E i, j \in DOMAIN records, p, q \in InsertPwds :
        /\ records[i].status = CHECKING /\ trim(p) = records[i].pwd
        /\ records[j].status = CHECKED /\ trim(q) = records[j].pwd

(***************************************************************************)
(* C33.  status and updated_at of a row.                                   *)
(***************************************************************************)
StatusInRange == \A i \in Rows : records[i].status \in {0, 1, 2}

StampStep ==
    \A i \in Rows :
        /\ records'[i].updated_at >= records[i].updated_at
        /\ records'[i].status # records[i].status => records'[i].updated_at = now'

\* C33: the status of a row is 0, 1 or 2; no step lowers the updated_at of a
\* row, and a step that changes the status of a row leaves the row with the
\* time of the step
StatusChangeStamps == []StatusInRange /\ [][StampStep]_vars

\* after the clock has moved, one row is on lease since this instant and
\* another was checked before it
StampedAtDifferentTimes ==
    /\ now > 0
    /\ \E i, j \in Rows :
        /\ records[i].status = CHECKING /\ records[i].updated_at = now
        /\ records[j].status = CHECKED /\ records[j].updated_at < now

(***************************************************************************)
(* C34.  A trial that raises an exception.                                 *)
(***************************************************************************)
OneResult ==
    \A i \in DOMAIN threads :
        /\ threads[i].posted <= 1
        /\ ~threads[i].rejected
                /\ (threads[i].success \/ threads[i].checkedCount = Len(threads[i].passwords))
             => threads[i].posted = 1

\* thread i has taken a step of its own that is not the thread's end by
\* 'error' or exit code
Tried(i) ==
    /\ client.at = "process" /\ client'.at = "process"
    /\ threads'[i] # threads[i]
    /\ threads'[i] # [threads[i] EXCEPT !.rejected = TRUE]

RaisedStep ==
    \A i \in DOMAIN threads :
        Tried(i) /\ threads'[i].raised # "none" =>
            /\ threads'[i].checkedCount = threads[i].checkedCount + 1
            /\ ~threads'[i].rejected
            /\ ~threads'[i].success
            /\ threads'[i].posted =
                    IF threads'[i].checkedCount = Len(threads[i].passwords) THEN 1 ELSE 0

\* C34: a trial that raises an exception, at whatever stage, counts its
\* password as checked and no match, and the thread goes on: it is not
\* ended by the trial, and once through its slice it has posted one message
TrialExceptionIsNonMatch == []OneResult /\ [][RaisedStep]_vars

\* a thread has gone through a slice that holds the password of the wallet,
\* and posted its one message, a failure, because the last trial raised
RaisedOnTheMatch ==
    \E i \in DOMAIN threads :
        /\ threads[i].raised # "none"
        /\ threads[i].posted = 1 /\ ~threads[i].success /\ ~threads[i].rejected
        /\ Len(threads[i].passwords) > 1
        /\ threads[i].passwords[Len(threads[i].passwords)] = client.encrypt

(***************************************************************************)
(* C35.  The chunks of processPasswords.                                   *)
(***************************************************************************)
RECURSIVE ChunksJoined(_)
ChunksJoined(k) == IF k = 0 THEN <<>> ELSE ChunksJoined(k - 1) \o threads[k].passwords

CeilDiv(n, w) == CHOOSE c \in 0..n : c * w >= n /\ (c - 1) * w < n

ChunksAsSpecified ==
    client.at = "process" =>
        /\ Len(threads) <= MaxWorkers
        /\ ChunksJoined(Len(threads)) = client.passwords
        /\ \A i \in DOMAIN threads :
            /\ Len(threads[i].passwords) > 0
            /\ Len(threads[i].passwords) <= CeilDiv(Len(client.passwords), MaxWorkers)
            /\ i < Len(threads) =>
                    Len(threads[i].passwords) = CeilDiv(Len(client.passwords), MaxWorkers)

ResultAfterAllSettled ==
    client.at = "process" /\ client'.at # "process" =>
        \A i \in DOMAIN threads : Settled(threads[i])

\* C35: the threads of a batch hold, in order, consecutive pieces of the
\* leased list that joined give the list again, at most MAX_WORKERS of them,
\* none empty, each but the last of ceil(n / MAX_WORKERS) passwords; run()
\* gets the result of the batch only when every thread has settled
ChunksPartitionTheLease == []ChunksAsSpecified /\ [][ResultAfterAllSettled]_vars

\* a lease that MAX_WORKERS does not divide is split into several chunks,
\* the last one shorter
UnevenLeaseSplit ==
    /\ client.at = "process"
    /\ Len(client.passwords) % MaxWorkers # 0
    /\ Len(threads) > 1
    /\ Len(threads[Len(threads)].passwords) < Len(threads[1].passwords)


(***************************************************************************)
(* C36.  Every password that a failure report lists has had its trial run  *)
(* to completion by one of the threads, also when a thread ends before it  *)
(* has finished its chunk.                                                 *)
(***************************************************************************)
TriedBy(t) == {t.passwords[k] : k \in 1..t.checkedCount}

FailureReportSent == client.at = "process" /\ client'.at = "submitFailure"

ReportedStep ==
    FailureReportSent =>
        \A k \in DOMAIN client'.checkedPasswords :
            \E i \in DOMAIN threads : client'.checkedPasswords[k] \in TriedBy(threads[i])

\* C36: a failure report lists only passwords that a thread has tried
ReportedWereTried == [][ReportedStep]_vars


(***************************************************************************)
(* C37.  Whenever no request is in flight, the latch is set exactly when   *)
(* the marker file exists: for every interleaving of the success report    *)
(* and found-confirm with reset-found on the sample store, and when the    *)
(* append of the marker fails and the handler answers 500.                 *)
(***************************************************************************)
\* C37: with no handler suspended, passwordFound holds iff found_password.txt
\* exists
LatchIffMarker == Idle => (passwordFound <=> foundFile > 0)


(***************************************************************************)
(* C38.  Every response of GET /work/stats reports passwordFound equal to  *)
(* the latch at the time it is read, the cached responses included.        *)
(***************************************************************************)
\* C38: the body a GET /work/stats returns now carries the latch of now
StatsReportsLatch == ~isUpdatingStats => StatsReply.passwordFound = passwordFound


(***************************************************************************)
(* C39.  The requests of the worker pass the auth check of the             *)
(* coordinator: with a secret configured, UNCHECK rows and the latch       *)
(* unset, the lease request of a running worker is authorized and the      *)
(* worker eventually receives a batch that is not empty.                   *)
(***************************************************************************)
LeaseAnswered == client.at = "requestWork" /\ client'.at # "requestWork"

CanServe ==
    /\ apiToken # ""
    /\ ~passwordFound
    /\ \E i \in Rows : StatusOf(i) = UNCHECK

LeaseAuthorizedStep ==
    LeaseAnswered /\ CanServe =>
        client'.workRequest.success /\ client'.workRequest.passwords # <<>>

BatchReceived == client.passwords # <<>>

\* C39: a lease request of the worker that the coordinator can serve is
\* answered with a batch, and the worker eventually holds a batch
WorkerIsServed == [][LeaseAuthorizedStep]_vars /\ <>BatchReceived


(***************************************************************************)
(* C40.  If no candidate opens the wallet and the latch is never set, then *)
(* with a worker that keeps running, with its requests delivered, and with *)
(* the timer task ticking, every candidate is eventually CHECKED: no row   *)
(* is left UNCHECK or CHECKING.                                            *)
(***************************************************************************)
AllRowsChecked == \A i \in Rows : StatusOf(i) = CHECKED

====
